---- MODULE Spec2Model ----
(***************************************************************************)
(* Steady-state cycle model of the single-spool turbojet of               *)
(* engine_components.py, run_design_point.py and run_off_design_solver.py.*)
(*                                                                         *)
(* Floating point is modelled in fixed point, every quantity an integer:  *)
(*   temperature      0.1 K   (dK)      and 0.1 degR (dR)                  *)
(*   pressure         100 Pa  (hPa)     and 0.01 psia (cpsi)               *)
(*   specific energy  100 J/kg          (enthalpy, work)                   *)
(*   velocity         m/s                                                  *)
(*   density          g/m^3                                                *)
(*   mass flow        g/s               and 0.01 lbm/s (cpps)              *)
(*   area             cm^2                                                 *)
(*   ratios           1/1000  (pressure ratio, efficiency, dP, Cd, Cfg,    *)
(*                             R_line, Mach number)                        *)
(*   fuel/air ratio   1/100000                                             *)
(* Every division rounds down, so a conversion and its inverse do not      *)
(* compose to the identity.                                                *)
(*                                                                         *)
(* The gas property engine (cantera) is outside the repository.  It is     *)
(* modelled as a calorically perfect gas with cp = 1000 J/kg/K and         *)
(* cp/cv = 2, whose state setters raise when the requested temperature or  *)
(* pressure is not strictly positive, whose composition setter raises when *)
(* handed the mole-fraction array of another phase, and whose equilibrium  *)
(* solver may fail to converge (an input of the scenario).                 *)
(***************************************************************************)
EXTENDS Integers, Sequences, FiniteSets, TLC

VARIABLES cfg, pc, heap, st, out, warn, exc, pdict, evals, sol

vars == <<cfg, pc, heap, st, out, warn, exc, pdict, evals, sol>>

(***************************************************************************)
(* Fixed-point arithmetic                                                  *)
(***************************************************************************)
Abs(x) == IF x < 0 THEN -x ELSE x

\* a * b = q * c + r with 0 <= r < c, for b >= 0 and c > 0, by doubling, so
\* that a * b itself is never formed
RECURSIVE MulDivRem(_, _, _)
MulDivRem(a, b, c) ==
    IF b = 0 THEN [q |-> 0, r |-> 0]
    ELSE LET h == MulDivRem(a, b \div 2, c)
             odd == b % 2 = 1
             r2 == 2 * h.r + (IF odd THEN a % c ELSE 0)
         IN  [q |-> 2 * h.q + (IF odd THEN a \div c ELSE 0) + r2 \div c,
              r |-> r2 % c]

\* floor(a * b / c) for b >= 0 and c > 0, the operands evaluated once
MulDiv(a, b, c) ==
    CHOOSE q \in {MulDivRem(x, y, z).q : x \in {a}, y \in {b}, z \in {c}} : TRUE

RECURSIVE IsqrtB(_, _, _)
IsqrtB(n, lo, hi) ==
    IF lo >= hi THEN lo
    ELSE LET mid == (lo + hi + 1) \div 2
         IN  IF mid * mid <= n THEN IsqrtB(n, mid, hi) ELSE IsqrtB(n, lo, mid - 1)

\* a / b for a float divisor of either sign, b # 0
DivRatio(a, b) == IF b > 0 THEN (a * 1000) \div b ELSE -((a * 1000) \div (-b))

\* the non-finite values of a float: numpy's float64 division by zero raises
\* nothing and gives inf, or nan for 0 / 0
FLOAT_INF == 2000000000
FLOAT_NAN == -2000000000
IsFinite(x) == x # FLOAT_INF /\ x # FLOAT_NAN

\* a / 0.0 for a >= 0
DivByZero(a) == IF a = 0 THEN FLOAT_NAN ELSE FLOAT_INF

\* np.sqrt on a non-negative number
Isqrt(n) == IsqrtB(n, 0, 46340)

(***************************************************************************)
(* Unit conversion constants, engine_components.py:17-30                   *)
(***************************************************************************)
PSI_TO_PA == 6895          \* 6894.76 Pa/psi, as 1e-4 hPa per cpsi
LBM_TO_KG == 4536          \* 0.453592 kg/lbm, as 1e-3 g/s per cpps
LBF_TO_N == 4448           \* 4.44822 N/lbf, as 1e-3
P_STD_PA == 1013           \* 101325 Pa
T_STD_K == 2882            \* 288.15 K

PsiToPa(P_psia) == (P_psia * PSI_TO_PA) \div 10000
PaToPsi(P_Pa) == (P_Pa * 10000) \div PSI_TO_PA
\* RANKINE_TO_KELVIN = 1 / 1.8 and KELVIN_TO_RANKINE = 1.8
RankineToKelvin(T_R) == (T_R * 5) \div 9
KelvinToRankine(T_K) == (T_K * 9) \div 5
PpsToKgps(W_pps) == (W_pps * LBM_TO_KG) \div 1000
KgpsToPps(W_kgps) == (W_kgps * 1000) \div LBM_TO_KG

P_STD_PSIA == PaToPsi(P_STD_PA)
T_STD_R == KelvinToRankine(T_STD_K)

(***************************************************************************)
(* The gas property engine: ct.Solution objects                            *)
(*   phase  "air" (air.yaml) or "nDodecane_IG" (nDodecane_Reitz.yaml)     *)
(*   comp   [kind, far]: "air", "fuel", "unburned" fuel/air mixture of    *)
(*          the given far, or its "burned" equilibrium products            *)
(***************************************************************************)
T_FUEL_K == 2982           \* fuel.TP = 298.15, one_atm
ONE_ATM == 1013
FAR_ONE == 100000          \* far = 1.0
LHV_btu_lbm == 18400
BTU_PER_LBM_TO_J_PER_KG == 2326
MW_AIR == 2885             \* kg/kmol * 100, 0.21 O2 + 0.79 N2
MW_FUEL == 17034           \* kg/kmol * 100, c12h26
HF_FUEL == -17080          \* J/kg / 100: formation enthalpy of c12h26 vapour

LHV == (LHV_btu_lbm * BTU_PER_LBM_TO_J_PER_KG) \div 100

AirX == [kind |-> "air", far |-> 0]
FuelX == [kind |-> "fuel", far |-> 0]

\* ct.Solution(source, phase): a new object in the phase's default state
NewSolution(phase) ==
    [phase |-> phase,
     comp |-> IF phase = "air" THEN AirX ELSE FuelX,
     T |-> 3000, P |-> ONE_ATM]

\* chemical (formation) part of the specific enthalpy of a composition
ChemH(comp) ==
    CASE comp.kind = "air" -> 0
      [] comp.kind = "fuel" -> HF_FUEL
      [] comp.kind = "unburned" -> MulDiv(HF_FUEL, comp.far, FAR_ONE + comp.far)
      [] comp.kind = "burned" -> MulDiv(HF_FUEL - LHV, comp.far, FAR_ONE + comp.far)

\* gas.h, J/kg: cp * (T - 298.15 K) + formation enthalpy
Gas_h(g) == (g.T - T_FUEL_K) + ChemH(g.comp)

\* gas.s: the isentrope through the state, T^2 / P = const for cp/cv = 2
Gas_s(g) == [T |-> g.T, P |-> g.P]

\* gas.mean_molecular_weight
Gas_MW(g) ==
    CASE g.comp.kind = "air" -> MW_AIR
      [] g.comp.kind = "fuel" -> MW_FUEL
      [] OTHER ->
           \* (1 + far) / (1 / MW_air + far / MW_fuel)
           MulDiv(MW_AIR, FAR_ONE + g.comp.far,
                  FAR_ONE + (g.comp.far * MW_AIR) \div MW_FUEL)

\* gas.density = P / (R T), R = cp / 2 = 500 J/kg/K
Gas_density(g) == (2000 * g.P) \div g.T

\* gas.sound_speed = sqrt(gamma R T)
Gas_sound_speed(g) == Isqrt(100 * g.T)

\* gas.cp_mass / gas.cv_mass, as a fraction
Gas_gamma(g) == [num |-> 2, den |-> 1]

\* the engine's property solvers converge for temperatures up to 4000 K
T_MAX == 40000

\* a state the engine can represent
StateOK(T, P) == T > 0 /\ T <= T_MAX /\ P > 0 /\ IsFinite(P)

\* gas.TP = T, P
Set_TP(g, T, P) ==
    IF StateOK(T, P) THEN [ok |-> TRUE, g |-> [g EXCEPT !.T = T, !.P = P]]
    ELSE [ok |-> FALSE, g |-> g]

\* gas.HP = h, P
Set_HP(g, h, P) == Set_TP(g, h - ChemH(g.comp) + T_FUEL_K, P)

\* gas.SP = s, P: isentropic change to pressure P, T2^2 = T1^2 * P / P1
Set_SP(g, s, P) ==
    IF P <= 0 \/ ~IsFinite(P) THEN [ok |-> FALSE, g |-> g]
    ELSE IF P > s.P /\ s.T * s.T > MulDiv(T_MAX * T_MAX, s.P, P)
      THEN [ok |-> FALSE, g |-> g]
    ELSE Set_TP(g, Isqrt(MulDiv(s.T * s.T, P, s.P)), P)

\* gas.setState_SH(s, h): isentropic change to enthalpy h, P2 = P1 * (T2 / T1)^2
Set_SH(g, s, h) ==
    LET T2 == h - ChemH(g.comp) + T_FUEL_K
    IN  IF T2 <= 0 THEN [ok |-> FALSE, g |-> g]
        ELSE Set_TP(g, T2, MulDiv(MulDiv(s.P, T2, s.T), T2, s.T))

\* gas.X = X: raises when X is the array of a phase with other species
Set_X(g, comp, fromPhase) ==
    IF fromPhase = g.phase THEN [ok |-> TRUE, g |-> [g EXCEPT !.comp = comp]]
    ELSE [ok |-> FALSE, g |-> g]

(***************************************************************************)
(* GasState: a station's state, a handle into the heap plus a mass flow   *)
(***************************************************************************)
GasState(gas, W_kgps) == [gas |-> gas, W_kgps |-> W_kgps]

T_K(H, state) == H[state.gas].T
P_Pa(H, state) == H[state.gas].P
h_jkg(H, state) == Gas_h(H[state.gas])
s_jkgK(H, state) == Gas_s(H[state.gas])
T_R(H, state) == KelvinToRankine(T_K(H, state))
P_psia(H, state) == PaToPsi(P_Pa(H, state))

\* GasState.update(T_K, P_Pa): self.gas.TP = T_K, P_Pa, on the object the
\* state refers to; ok is FALSE when the setter raises
update(H, state, T, P) ==
    LET ret(r) == [ok |-> r.ok, H |-> [H EXCEPT ![state.gas] = r.g]]
    IN  ret(Set_TP(H[state.gas], T, P))

\* GasState.update_hP(h_jkg, P_Pa): self.gas.HP = h_jkg, P_Pa
update_hP(H, state, h, P) ==
    LET ret(r) == [ok |-> r.ok, H |-> [H EXCEPT ![state.gas] = r.g]]
    IN  ret(Set_HP(H[state.gas], h, P))

\* GasState.update_sP(s_jkgK, P_Pa): self.gas.SP = s_jkgK, P_Pa
update_sP(H, state, s, P) ==
    LET ret(r) == [ok |-> r.ok, H |-> [H EXCEPT ![state.gas] = r.g]]
    IN  ret(Set_SP(H[state.gas], s, P))

\* setup_gas(): a new air object and a new fuel object, appended to the heap
setup_gas(H) ==
    LET air0 == [NewSolution("air") EXCEPT !.comp = AirX]
        fuel0 == [NewSolution("nDodecane_IG") EXCEPT !.comp = FuelX,
                                                     !.T = T_FUEL_K, !.P = ONE_ATM]
    IN  [H |-> H \o <<air0, fuel0>>, air |-> Len(H) + 1, fuel |-> Len(H) + 2]

(***************************************************************************)
(* Inlet, station 0 -> 2                                                   *)
(***************************************************************************)
\* the ram recovery through the gas object, for any Mach number
ram_through_gas(H, P_amb_psia, T_amb_R, mn, air) ==
      LET T_amb_K == RankineToKelvin(T_amb_R)
          P_amb_Pa == PsiToPa(P_amb_psia)
          r0 == Set_TP(H[air], T_amb_K, P_amb_Pa)
          h_amb_jkg == Gas_h(r0.g)
          s_amb_jkgK == Gas_s(r0.g)
          a_amb_mps == Gas_sound_speed(r0.g)
          V_flight_mps == (mn * a_amb_mps) \div 1000
          \* h + 0.5 V^2, in 100 J/kg
          h_total_jkg == h_amb_jkg + (V_flight_mps * V_flight_mps) \div 200
          r1 == Set_SH(r0.g, s_amb_jkgK, h_total_jkg)
      IN  IF ~r0.ok THEN [H |-> H, exc |-> "CanteraError", Pt |-> 0, Tt |-> 0]
          ELSE IF ~r1.ok
            THEN [H |-> [H EXCEPT ![air] = r0.g], exc |-> "CanteraError",
                  Pt |-> 0, Tt |-> 0]
          ELSE [H |-> [H EXCEPT ![air] = r1.g], exc |-> "none",
                Pt |-> PaToPsi(r1.g.P), Tt |-> KelvinToRankine(r1.g.T)]

\* an inlet without the Mach 0 shortcut: the ambient values go to SI, through
\* the gas object and back
calculate_ram_converting(H, P_amb_psia, T_amb_R, mn, air) ==
    ram_through_gas(H, P_amb_psia, T_amb_R, mn, air)

\* Inlet.calculate_ram(P_amb_psia, T_amb_R, mn, air) -> (Pt, Tt), Imperial
calculate_ram(H, P_amb_psia, T_amb_R, mn, air) ==
    IF mn = 0 THEN [H |-> H, exc |-> "none", Pt |-> P_amb_psia, Tt |-> T_amb_R]
    ELSE ram_through_gas(H, P_amb_psia, T_amb_R, mn, air)

(***************************************************************************)
(* Compressor, station 2 -> 3                                              *)
(***************************************************************************)
\* a compressor that divides the inlet pressure by the pressure ratio
Compressor_calculate_dividing(H, Tt_in_R, Pt_in_psia, PR, eff, air) ==
    LET r0 == Set_TP(H[air], RankineToKelvin(Tt_in_R), PsiToPa(Pt_in_psia))
        Pt_out_Pa == DivRatio(PsiToPa(Pt_in_psia), PR)
        r1 == Set_SP(r0.g, Gas_s(r0.g), Pt_out_Pa)
        W_comp_jkg == DivRatio(Gas_h(r1.g) - Gas_h(r0.g), eff)
        r2 == Set_HP(r1.g, Gas_h(r0.g) + W_comp_jkg, Pt_out_Pa)
    IN  IF r0.ok /\ r1.ok /\ r2.ok
          THEN [H |-> [H EXCEPT ![air] = r2.g], exc |-> "none",
                Pt |-> PaToPsi(Pt_out_Pa), Tt |-> KelvinToRankine(r2.g.T),
                W |-> W_comp_jkg]
        ELSE [H |-> H, exc |-> "CanteraError", Pt |-> 0, Tt |-> 0, W |-> 0]

\* Compressor.calculate(Tt_in_R, Pt_in_psia, PR, eff, air)
\*   -> (Pt_out psia, Tt_out R, W_comp J per kg of air)
Compressor_calculate(H, Tt_in_R, Pt_in_psia, PR, eff, air) ==
    LET Tt_in_K == RankineToKelvin(Tt_in_R)
        Pt_in_Pa == PsiToPa(Pt_in_psia)
        r0 == Set_TP(H[air], Tt_in_K, Pt_in_Pa)
        h_in_jkg == Gas_h(r0.g)
        s_in_jkgK == Gas_s(r0.g)
        Pt_out_Pa == (Pt_in_Pa * PR) \div 1000
        r1 == Set_SP(r0.g, s_in_jkgK, Pt_out_Pa)
        h_out_ideal_jkg == Gas_h(r1.g)
        W_comp_jkg == DivRatio(h_out_ideal_jkg - h_in_jkg, eff)
        h_out_jkg == h_in_jkg + W_comp_jkg
        r2 == Set_HP(r1.g, h_out_jkg, Pt_out_Pa)
        fail(g, e) == [H |-> [H EXCEPT ![air] = g], exc |-> e,
                       Pt |-> 0, Tt |-> 0, W |-> 0]
    IN  IF ~r0.ok THEN fail(H[air], "CanteraError")
        ELSE IF ~r1.ok THEN fail(r0.g, "CanteraError")
        ELSE IF eff = 0 THEN fail(r1.g, "ZeroDivisionError")
        ELSE IF ~r2.ok THEN fail(r1.g, "CanteraError")
        ELSE [H |-> [H EXCEPT ![air] = r2.g], exc |-> "none",
              Pt |-> PaToPsi(Pt_out_Pa), Tt |-> KelvinToRankine(r2.g.T),
              W |-> W_comp_jkg]

(***************************************************************************)
(* Burner, station 3 -> 4                                                  *)
(***************************************************************************)
\* print(f"경고: ..."): a reported warning, who reports it and the value it names
Warning(who, arg) == [who |-> who, arg |-> arg]

\* gas.equilibrate('HP'): fixed enthalpy and pressure.  The solver does not
\* converge for mixtures at or above the scenario's eqFailFrom (0: never fails).
Equilibrate(g) ==
    IF cfg.eqFailFrom > 0 /\ g.comp.far >= cfg.eqFailFrom THEN [ok |-> FALSE, g |-> g]
    ELSE LET burned == [kind |-> "burned", far |-> g.comp.far]
         IN  Set_HP([g EXCEPT !.comp = burned], Gas_h(g), g.P)

\* Burner._perform_combustion(state3, far_target, dP_ratio, fuel) -> gas
Burner_perform_combustion(H, state3, far_target, dP_ratio, fuel) ==
    LET Pt_out_Pa == (P_Pa(H, state3) * (1000 - dP_ratio)) \div 1000
        gas == Len(H) + 1
        h_air_in_jkg == h_jkg(H, state3)
        fuelg == (Set_TP(H[fuel], T_FUEL_K, ONE_ATM)).g
        h_fuel_in_jkg == Gas_h(fuelg)
        H1 == Append([H EXCEPT ![fuel] = fuelg], NewSolution("nDodecane_IG"))
        \* the try block
        h_in_jkg == MulDiv(h_air_in_jkg, FAR_ONE, FAR_ONE + far_target)
                      + MulDiv(h_fuel_in_jkg, far_target, FAR_ONE + far_target)
        g1 == [H1[gas] EXCEPT !.comp = [kind |-> "unburned", far |-> far_target]]
        MW_unburned == Gas_MW(g1)
        \* h_in_jkg * MW_unburned, the number gas.HP is handed as an enthalpy
        H_in_jkmol == MulDiv(h_in_jkg, MW_unburned, 100)
        r2 == Set_HP(g1, H_in_jkmol, Pt_out_Pa)
        r3 == Equilibrate(r2.g)
        tryOK == FAR_ONE + far_target # 0 /\ r2.ok /\ r3.ok
        \* the except block: gas.TPX = state3.T_K, Pt_out_Pa, state3.gas.X
        gx == IF FAR_ONE + far_target = 0 THEN H1[gas]
              ELSE IF r2.ok THEN r2.g ELSE g1
        r4 == Set_X(gx, H[state3.gas].comp, H[state3.gas].phase)
        r5 == Set_TP(r4.g, T_K(H, state3), Pt_out_Pa)
    IN  IF tryOK
          THEN [H |-> [H1 EXCEPT ![gas] = r3.g], exc |-> "none", gas |-> gas,
                warn |-> {}]
        ELSE IF ~r4.ok
          THEN [H |-> [H1 EXCEPT ![gas] = gx], exc |-> "ValueError", gas |-> 0,
                warn |-> {Warning("perform_combustion", far_target)}]
        ELSE IF ~r5.ok
          THEN [H |-> [H1 EXCEPT ![gas] = r4.g], exc |-> "CanteraError", gas |-> 0,
                warn |-> {Warning("perform_combustion", far_target)}]
        ELSE [H |-> [H1 EXCEPT ![gas] = r5.g], exc |-> "none", gas |-> gas,
              warn |-> {Warning("perform_combustion", far_target)}]

\* Burner.calculate_from_far(state3, far_target, dP_ratio, fuel) -> state4
Burner_calculate_from_far(H, state3, far_target, dP_ratio, fuel) ==
    LET ret(c) == [H |-> c.H, exc |-> c.exc, warn |-> c.warn,
                   state4 |-> GasState(c.gas, 0)]
    IN  ret(Burner_perform_combustion(H, state3, far_target, dP_ratio, fuel))

FAR_LO == 100              \* brentq bracket, 0.001
FAR_HI == 5000             \* brentq bracket, 0.05
FAR_GUARD_HI == 10000      \* _objective_func guard, 0.1
FAR_GUESS_INITIAL == 1700  \* far_guess_initial = 0.017
XTOL == 1                  \* xtol = 1e-6, at the resolution of far
SENTINEL == 1000000        \* 1e6

\* _objective_func(far_guess) inside Burner.calculate_from_T4.  The gas object
\* it creates is garbage once it returns and is not kept on the heap.
Burner_objective_func(H, state3, Tt_out_K, dP_ratio, fuel, far_guess) ==
    IF far_guess < FAR_LO \/ far_guess > FAR_GUARD_HI
      THEN [exc |-> "none", val |-> SENTINEL, warn |-> {}]
    ELSE LET ret(c) ==
                 IF c.exc # "none" THEN [exc |-> c.exc, val |-> 0, warn |-> c.warn]
                 ELSE [exc |-> "none", val |-> c.H[c.gas].T - Tt_out_K,
                       warn |-> c.warn]
         IN  ret(Burner_perform_combustion(H, state3, far_guess, dP_ratio, fuel))

Sign(x) == IF x > 0 THEN 1 ELSE IF x < 0 THEN -1 ELSE 0

\* a bracketing iteration that returns the lower end of the bracket it is given
BrentqIter_unrefined(H, state3, Tt_out_K, dP_ratio, fuel, lo, flo, hi, fhi) ==
    [exc |-> "none", far |-> lo, warn |-> {}]

\* the bracketing iteration of brentq: [lo, hi] keeps a sign change of the
\* objective and is halved until it is no wider than xtol
RECURSIVE BrentqIter(_, _, _, _, _, _, _, _, _)
BrentqIter(H, state3, Tt_out_K, dP_ratio, fuel, lo, flo, hi, fhi) ==
    IF flo = 0 THEN [exc |-> "none", far |-> lo, warn |-> {}]
    ELSE IF fhi = 0 THEN [exc |-> "none", far |-> hi, warn |-> {}]
    ELSE IF hi - lo <= XTOL
      THEN [exc |-> "none", far |-> IF Abs(flo) <= Abs(fhi) THEN lo ELSE hi,
            warn |-> {}]
    ELSE LET mid == (lo + hi) \div 2
             \* what the evaluation at mid printed comes before the rest
             after(fm, b) == [b EXCEPT !.warn = fm.warn \cup @]
             step(fm) ==
                 IF fm.exc # "none" THEN [exc |-> fm.exc, far |-> 0, warn |-> fm.warn]
                 ELSE IF Sign(fm.val) = Sign(flo)
                   THEN after(fm, BrentqIter(H, state3, Tt_out_K, dP_ratio, fuel,
                                             mid, fm.val, hi, fhi))
                 ELSE after(fm, BrentqIter(H, state3, Tt_out_K, dP_ratio, fuel,
                                           lo, flo, mid, fm.val))
         IN  step(Burner_objective_func(H, state3, Tt_out_K, dP_ratio, fuel, mid))

\* brentq(_objective_func, 0.001, 0.05, xtol=1e-6, rtol=1e-6, maxiter=100):
\* evaluates the objective at the lower end, then at the upper end, raises
\* ValueError unless the objective changes sign over the bracket, and passes
\* on whatever the objective raises; warn is what the evaluations printed
Burner_brentq(H, state3, Tt_out_K, dP_ratio, fuel) ==
    LET search(fa, fb) ==
            LET after(b) == [b EXCEPT !.warn = fa.warn \cup fb.warn \cup @]
            IN  IF fa.exc # "none" THEN [exc |-> fa.exc, far |-> 0, warn |-> fa.warn]
                ELSE IF fb.exc # "none"
                  THEN [exc |-> fb.exc, far |-> 0, warn |-> fa.warn \cup fb.warn]
                ELSE IF Sign(fa.val) * Sign(fb.val) > 0
                  THEN [exc |-> "ValueError", far |-> 0,
                        warn |-> fa.warn \cup fb.warn]
                ELSE after(BrentqIter(H, state3, Tt_out_K, dP_ratio, fuel,
                                      FAR_LO, fa.val, FAR_HI, fb.val))
    IN  search(Burner_objective_func(H, state3, Tt_out_K, dP_ratio, fuel, FAR_LO),
               Burner_objective_func(H, state3, Tt_out_K, dP_ratio, fuel, FAR_HI))

\* Burner.calculate_from_T4(state3, Tt_out_R, dP_ratio, fuel) -> (state4, far)
Burner_calculate_from_T4(H, state3, Tt_out_R, dP_ratio, fuel) ==
    LET Tt_out_K == RankineToKelvin(Tt_out_R)
        \* the try / except around brentq: b is what brentq returned or raised
        solved(b) ==
            LET ier == IF b.exc = "none" THEN 1 ELSE 0
                far_actual == IF ier # 1 THEN FAR_GUESS_INITIAL ELSE b.far
                w0 == b.warn \cup (IF ier # 1 THEN {Warning("Burner_solver", Tt_out_R)}
                                   ELSE {})
                \* state4_gas = Burner._perform_combustion(state3, far_actual, ...)
                ret(c) ==
                    IF c.exc # "none"
                      THEN [H |-> c.H, exc |-> c.exc, warn |-> w0 \cup c.warn,
                            state4 |-> GasState(0, 0), far |-> 0, ier |-> ier]
                    ELSE [H |-> c.H, exc |-> "none", warn |-> w0 \cup c.warn,
                          state4 |-> GasState(c.gas, 0), far |-> far_actual,
                          ier |-> ier]
            IN  ret(Burner_perform_combustion(H, state3, far_actual, dP_ratio, fuel))
    IN  solved(Burner_brentq(H, state3, Tt_out_K, dP_ratio, fuel))

(***************************************************************************)
(* Turbine, station 4 -> 5                                                 *)
(***************************************************************************)
\* ct.Solution(state.gas.source, state.gas.name) followed by
\* copy.TPX = state.T_K, state.P_Pa, state.gas.X: a fresh copy of the state's gas
CopyGas(H, state) ==
    LET r0 == Set_X(NewSolution(H[state.gas].phase), H[state.gas].comp,
                    H[state.gas].phase)
    IN  Set_TP(r0.g, T_K(H, state), P_Pa(H, state))

\* a turbine that expands the gas object of the inlet state itself
Turbine_exit_in_place(H, state4, g) ==
    [H |-> [H EXCEPT ![state4.gas] = g], state5 |-> GasState(state4.gas, 0)]

\* state5 = GasState(exhaust_gas): exhaust_gas, the copy made on entry and now
\* holding g, is a new object on the heap
Turbine_exit(H, state4, g) ==
    [H |-> Append(H, g), state5 |-> GasState(Len(H) + 1, 0)]

\* Turbine.calculate(state4, PR_turb, eff, far) -> (state5, W_turb per kg of exhaust).
\* PR_turb comes from get_turbine_map on the numpy array x of the solver: it is
\* a numpy float, so P_in_Pa / PR_turb at a pressure ratio of 0 raises nothing
\* and gives inf, which the SP assignment of the gas engine then refuses.
Turbine_calculate(H, state4, PR_turb, eff, far) ==
    LET c0 == CopyGas(H, state4)
        h_in_jkg == h_jkg(H, state4)
        s_in_jkgK == s_jkgK(H, state4)
        P_in_Pa == P_Pa(H, state4)
        Pt_out_Pa == IF PR_turb = 0 THEN DivByZero(P_in_Pa)
                     ELSE DivRatio(P_in_Pa, PR_turb)
        r1 == Set_SP(c0.g, s_in_jkgK, Pt_out_Pa)
        h_out_ideal_jkg == Gas_h(r1.g)
        h_drop_ideal == h_in_jkg - h_out_ideal_jkg
        h_drop_real == (h_drop_ideal * eff) \div 1000
        h_out_jkg == h_in_jkg - h_drop_real
        r2 == Set_HP(r1.g, h_out_jkg, Pt_out_Pa)
        fail(e) == [H |-> H, exc |-> e, state5 |-> GasState(0, 0), W_turb |-> 0]
        ret(x) == [H |-> x.H, exc |-> "none", state5 |-> x.state5,
                   W_turb |-> h_drop_real]
    IN  IF ~c0.ok THEN fail("CanteraError")
        ELSE IF ~r1.ok \/ ~r2.ok THEN fail("CanteraError")
        ELSE ret(Turbine_exit(H, state4, r2.g))

\* _find_P_from_SH(P_guess_Pa) inside Turbine.calculate_from_work
find_P_from_SH(solver_gas, s_in_jkgK, h_out_ideal_jkg, P_guess_Pa) ==
    IF P_guess_Pa <= 0 THEN SENTINEL
    ELSE LET r == Set_SP(solver_gas, s_in_jkgK, P_guess_Pa)
         IN  IF r.ok THEN Gas_h(r.g) - h_out_ideal_jkg ELSE SENTINEL

\* the least P in lo+1 .. hi at which the objective is not negative, given that
\* it is negative at lo and not negative at hi
RECURSIVE FsolveIter(_, _, _, _, _)
FsolveIter(solver_gas, s_in_jkgK, h_out_ideal_jkg, lo, hi) ==
    IF hi - lo <= 1 THEN hi
    ELSE LET mid == (lo + hi) \div 2
         IN  IF find_P_from_SH(solver_gas, s_in_jkgK, h_out_ideal_jkg, mid) < 0
               THEN FsolveIter(solver_gas, s_in_jkgK, h_out_ideal_jkg, mid, hi)
             ELSE FsolveIter(solver_gas, s_in_jkgK, h_out_ideal_jkg, lo, mid)

\* an fsolve that reports convergence at the seed it was given
Turbine_fsolve_seed(solver_gas, s_in_jkgK, h_out_ideal_jkg, P_initial_guess, PSearchMax) ==
    [P_solution |-> P_initial_guess, ier |-> 1]

\* fsolve(_find_P_from_SH, P_initial_guess, full_output=True, xtol=1e-6)
\*   -> (P_solution, ier): ier = 1 when the iteration converged on a root.
\* The objective does not decrease with P; the search converges when it
\* changes sign between the least representable pressure and PSearchMax.
Turbine_fsolve(solver_gas, s_in_jkgK, h_out_ideal_jkg, P_initial_guess, PSearchMax) ==
    IF find_P_from_SH(solver_gas, s_in_jkgK, h_out_ideal_jkg, 1) >= 0
         \/ find_P_from_SH(solver_gas, s_in_jkgK, h_out_ideal_jkg, PSearchMax) < 0
      THEN [P_solution |-> P_initial_guess, ier |-> 5]
    ELSE [P_solution |-> FsolveIter(solver_gas, s_in_jkgK, h_out_ideal_jkg,
                                    1, PSearchMax),
          ier |-> 1]

\* Turbine.calculate_from_work(state4, W_comp_jkg, eff, far) -> state5
Turbine_calculate_from_work(H, state4, W_comp_jkg, eff, far) ==
    LET c0 == CopyGas(H, state4)
        h_in_jkg == h_jkg(H, state4)
        s_in_jkgK == s_jkgK(H, state4)
        h_drop_turb_jkg == MulDiv(W_comp_jkg, FAR_ONE, FAR_ONE + far)
        h_out_jkg == h_in_jkg - h_drop_turb_jkg
        h_out_ideal_jkg == h_in_jkg - DivRatio(h_drop_turb_jkg, eff)
        P_initial_guess == P_Pa(H, state4) \div 3
        f == Turbine_fsolve(c0.g, s_in_jkgK, h_out_ideal_jkg, P_initial_guess,
                            2 * P_Pa(H, state4))
        Pt_out_Pa == IF f.ier # 1 THEN P_initial_guess ELSE f.P_solution
        w == IF f.ier # 1 THEN {Warning("Turbine_solver", f.ier)} ELSE {}
        r2 == Set_HP(c0.g, h_out_jkg, Pt_out_Pa)
        fail(e, ww) == [H |-> H, exc |-> e, warn |-> ww,
                        state5 |-> GasState(0, 0), ier |-> 0]
        ret(x) == [H |-> x.H, exc |-> "none", warn |-> w, state5 |-> x.state5,
                   ier |-> f.ier]
    IN  IF ~c0.ok THEN fail("CanteraError", {})
        ELSE IF FAR_ONE + far = 0 \/ eff = 0 THEN fail("ZeroDivisionError", {})
        ELSE IF ~r2.ok THEN fail("CanteraError", w)
        ELSE ret(Turbine_exit(H, state4, r2.g))

(***************************************************************************)
(* Nozzle, station 5 -> 8/9                                                *)
(***************************************************************************)
RECURSIVE GCD(_, _)
GCD(a, b) == IF b = 0 THEN a ELSE GCD(b, a % b)

POW_ONE == 1000000         \* resolution of a power with a fractional exponent

\* n ** k for a whole k
RECURSIVE PowWhole(_, _)
PowWhole(n, k) == IF k <= 0 THEN 1 ELSE n * PowWhole(n, k - 1)

\* (y / POW_ONE) ** k for a whole k, in 1 / POW_ONE
RECURSIVE PowScaled(_, _)
PowScaled(y, k) ==
    IF k <= 0 THEN POW_ONE ELSE MulDiv(PowScaled(y, k - 1), y, POW_ONE)

\* the largest y in lo .. hi with (y / POW_ONE) ** k <= xs / POW_ONE
RECURSIVE RootScaled(_, _, _, _)
RootScaled(xs, k, lo, hi) ==
    IF lo >= hi THEN lo
    ELSE LET mid == (lo + hi + 1) \div 2
         IN  IF PowScaled(mid, k) <= xs THEN RootScaled(xs, k, mid, hi)
             ELSE RootScaled(xs, k, lo, mid - 1)

\* x ** e for a fraction x > 0 and a fraction e with e.den # 0, as a fraction:
\* exact when e is a whole number, to 1 / POW_ONE otherwise
Power(x, e) ==
    LET g == GCD(Abs(e.num), Abs(e.den))
        a == Abs(e.num) \div g
        b == Abs(e.den) \div g
        xs == MulDiv(POW_ONE, x.num, x.den)
        pos == IF b = 1 THEN [num |-> PowWhole(x.num, a), den |-> PowWhole(x.den, a)]
               ELSE [num |-> PowScaled(RootScaled(xs, b, 0, IF xs > POW_ONE THEN xs
                                                            ELSE POW_ONE), a),
                     den |-> POW_ONE]
    IN  IF (e.num < 0) # (e.den < 0) THEN [num |-> pos.den, den |-> pos.num]
        ELSE pos

\* P_in * (2 / (gamma + 1)) ** (gamma / (gamma - 1)), for cp > cv
CriticalPressure(P_in_Pa, gamma) ==
    LET r(p) == MulDiv(P_in_Pa, p.num, p.den)
    IN  r(Power([num |-> 2 * gamma.den, den |-> gamma.num + gamma.den],
                [num |-> gamma.num, den |-> gamma.num - gamma.den]))

\* a choice that takes the lower of the two pressures
ThroatPressure_lower(P_crit_Pa, P_amb_Pa) ==
    IF P_crit_Pa < P_amb_Pa THEN P_crit_Pa ELSE P_amb_Pa

\* the choice between the choked and the unchoked throat pressure
ThroatPressure(P_crit_Pa, P_amb_Pa) ==
    IF P_crit_Pa > P_amb_Pa THEN P_crit_Pa ELSE P_amb_Pa

\* Nozzle._calculate_throat(state_in, P_amb_Pa) -> (rho, V, h) at the throat.
\* P_th is the throat pressure the routine settled on; the copy of the gas it
\* works on is local to the call.
Nozzle_calculate_throat(H, state_in, P_amb_Pa) ==
    LET h_in_jkg == h_jkg(H, state_in)
        s_in_jkgK == s_jkgK(H, state_in)
        P_in_Pa == P_Pa(H, state_in)
        fail(ww) == [exc |-> "CanteraError", rho |-> 0, V |-> 0, h_th |-> 0,
                     P_th |-> 0, P_crit |-> 0, warn |-> ww]
        \* the state at the throat, exhaust_gas being g at the pressure P_th_Pa
        throat(g, P_th_Pa, P_crit_Pa, ww) ==
            LET h_th_jkg == Gas_h(g)
                rho_th_kg_m3 == Gas_density(g)
                h_drop == IF h_in_jkg - h_th_jkg < 0 THEN 0
                          ELSE h_in_jkg - h_th_jkg
                V_th_mps == Isqrt(200 * h_drop)
            IN  [exc |-> "none", rho |-> rho_th_kg_m3, V |-> V_th_mps,
                 h_th |-> h_th_jkg, P_th |-> P_th_Pa, P_crit |-> P_crit_Pa,
                 warn |-> ww]
        \* r1: exhaust_gas.SP = s_in_jkgK, P_in_Pa
        choked(r1) ==
            LET gamma == Gas_gamma(r1.g)
                P_crit_Pa == CriticalPressure(P_in_Pa, gamma)
                P_th0 == ThroatPressure(P_crit_Pa, P_amb_Pa)
                \* the except block: force the unchoked state
                P_th1 == IF P_amb_Pa <= 0 THEN 1 ELSE P_amb_Pa
                w == {Warning("Nozzle_throat", P_th0)}
                forced(r3) == IF r3.ok THEN throat(r3.g, P_th1, P_crit_Pa, w)
                              ELSE fail(w)
                \* r2: the try block, exhaust_gas.SP = s_in_jkgK, P_th_Pa
                settle(r2) == IF r2.ok THEN throat(r2.g, P_th0, P_crit_Pa, {})
                              ELSE forced(Set_SP(r2.g, s_in_jkgK, P_th1))
            IN  IF ~r1.ok THEN fail({})
                ELSE settle(Set_SP(r1.g, s_in_jkgK, P_th0))
        \* c0: the copy of the state's gas
        copied(c0) == IF ~c0.ok THEN fail({})
                      ELSE choked(Set_SP(c0.g, s_in_jkgK, P_in_Pa))
    IN  copied(CopyGas(H, state_in))

\* Nozzle._calculate_thrust(state5, W_air_pps, P_amb_psia, mn_flight, Cfg, T_amb_R)
\*   -> (Fnet, Fg, Fd) in lbf
Nozzle_calculate_thrust(H, state5, W_air_pps, P_amb_psia, mn_flight, Cfg, T_amb_R) ==
    LET h_in_jkg == h_jkg(H, state5)
        s_in_jkgK == s_jkgK(H, state5)
        W_total_kgps == state5.W_kgps
        P_amb_Pa == PsiToPa(P_amb_psia)
        fail(ww) == [exc |-> "CanteraError", Fnet |-> 0, Fg |-> 0, Fd |-> 0,
                     warn |-> ww]
        \* the thrust, exhaust_gas being g and r3 the ambient air.TP = ...
        thrust(g, r3, ww) ==
            LET h_out_ideal_jkg == Gas_h(g)
                h_drop_ideal == IF h_in_jkg - h_out_ideal_jkg < 0 THEN 0
                                ELSE h_in_jkg - h_out_ideal_jkg
                V_ideal_mps == Isqrt(200 * h_drop_ideal)
                Fg_N == (MulDiv(W_total_kgps, V_ideal_mps, 1000) * Cfg) \div 1000
                a_amb_mps == Gas_sound_speed(r3.g)
                V_flight_mps == (mn_flight * a_amb_mps) \div 1000
                W_air_kgps == PpsToKgps(W_air_pps)
                Fd_N == MulDiv(W_air_kgps, V_flight_mps, 1000)
                Fnet_N == Fg_N - Fd_N
            IN  IF ~r3.ok THEN fail(ww)
                ELSE [exc |-> "none", Fnet |-> (Fnet_N * 1000) \div LBF_TO_N,
                      Fg |-> (Fg_N * 1000) \div LBF_TO_N,
                      Fd |-> (Fd_N * 1000) \div LBF_TO_N, warn |-> ww]
        ambient == Set_TP((setup_gas(<<>>)).H[1], RankineToKelvin(T_amb_R), P_amb_Pa)
        w == {Warning("Nozzle_thrust", P_amb_Pa)}
        \* the except block: exhaust_gas.TPX = state5.T_K, P_amb_Pa, state5.gas.X
        forced(r2) == IF r2.ok THEN thrust(r2.g, ambient, w) ELSE fail(w)
        \* r1: the try block, exhaust_gas.SP = s_in_jkgK, P_amb_Pa
        expand(r1) == IF r1.ok THEN thrust(r1.g, ambient, {})
                      ELSE forced(Set_TP(r1.g, T_K(H, state5), P_amb_Pa))
        \* c0: the copy of the state's gas
        copied(c0) == IF ~c0.ok THEN fail({})
                      ELSE expand(Set_SP(c0.g, s_in_jkgK, P_amb_Pa))
    IN  copied(CopyGas(H, state5))

\* a nozzle that returns the computed flow in kg/s, without the conversion to
\* lbm/s
Nozzle_calculate_in_kgps(H, state5, W_air_pps, P_amb_psia, mn_flight, Cfg, Cd, T_amb_R, A_th_m2) ==
    LET ret(t, th) ==
            IF t.exc # "none" \/ th.exc # "none"
              THEN [exc |-> IF t.exc # "none" THEN t.exc ELSE th.exc,
                    Fnet |-> 0, Fg |-> 0, Fd |-> 0, W_calc |-> 0,
                    warn |-> t.warn \cup th.warn, th |-> th]
            ELSE [exc |-> "none", Fnet |-> t.Fnet, Fg |-> t.Fg, Fd |-> t.Fd,
                  W_calc |-> IF A_th_m2 = FLOAT_NAN THEN FLOAT_NAN
                             ELSE IF A_th_m2 = FLOAT_INF
                               THEN IF th.rho * th.V = 0 \/ Cd = 0
                                      THEN FLOAT_NAN ELSE FLOAT_INF
                             ELSE (MulDiv(th.rho * th.V, A_th_m2, 10000) * Cd) \div 1000,
                  warn |-> t.warn \cup th.warn, th |-> th]
    IN  ret(Nozzle_calculate_thrust(H, state5, W_air_pps, P_amb_psia, mn_flight,
                                    Cfg, T_amb_R),
            Nozzle_calculate_throat(H, state5, PsiToPa(P_amb_psia)))

\* Nozzle.calculate(state5, W_air_pps, P_amb_psia, mn_flight, Cfg, Cd, T_amb_R, A_th_m2)
\*   -> (Fnet, Fg, Fd, W_calc in lbm/s)
Nozzle_calculate(H, state5, W_air_pps, P_amb_psia, mn_flight, Cfg, Cd, T_amb_R, A_th_m2) ==
    LET P_amb_Pa == PsiToPa(P_amb_psia)
        \* t is what _calculate_thrust returned, th what _calculate_throat did
        ret(t, th) ==
            LET \* (rho * V * A_th) * Cd, in g/s; inf * 0 is nan
                W_calc_kgps ==
                    IF A_th_m2 = FLOAT_NAN THEN FLOAT_NAN
                    ELSE IF A_th_m2 = FLOAT_INF
                      THEN IF th.rho * th.V = 0 \/ Cd = 0 THEN FLOAT_NAN ELSE FLOAT_INF
                    ELSE (MulDiv(th.rho * th.V, A_th_m2, 10000) * Cd) \div 1000
                fail(e, w) == [exc |-> e, Fnet |-> 0, Fg |-> 0, Fd |-> 0,
                               W_calc |-> 0, warn |-> w, th |-> th]
            IN  IF t.exc # "none" THEN fail(t.exc, t.warn)
                ELSE IF th.exc # "none" THEN fail(th.exc, t.warn \cup th.warn)
                ELSE [exc |-> "none", Fnet |-> t.Fnet, Fg |-> t.Fg, Fd |-> t.Fd,
                      W_calc |-> IF IsFinite(W_calc_kgps)
                                   THEN KgpsToPps(W_calc_kgps) ELSE W_calc_kgps,
                      warn |-> t.warn \cup th.warn, th |-> th]
    IN  ret(Nozzle_calculate_thrust(H, state5, W_air_pps, P_amb_psia, mn_flight,
                                    Cfg, T_amb_R),
            Nozzle_calculate_throat(H, state5, P_amb_Pa))

\* a design point that leaves the discharge coefficient out of the throat area
Nozzle_calculate_design_point_without_Cd(H, state5, W_air_pps, P_amb_psia, mn_flight, Cfg, Cd, T_amb_R) ==
    LET ret(t, th) ==
            IF t.exc # "none" \/ th.exc # "none" \/ th.rho * th.V = 0
              THEN [exc |-> IF t.exc # "none" THEN t.exc
                            ELSE IF th.exc # "none" THEN th.exc ELSE "ValueError",
                    Fnet |-> 0, Fg |-> 0, Fd |-> 0, A_th |-> 0,
                    warn |-> t.warn \cup th.warn, th |-> th]
            ELSE [exc |-> "none", Fnet |-> t.Fnet, Fg |-> t.Fg, Fd |-> t.Fd,
                  A_th |-> (state5.W_kgps * 10000) \div (th.rho * th.V),
                  warn |-> t.warn \cup th.warn, th |-> th]
    IN  ret(Nozzle_calculate_thrust(H, state5, W_air_pps, P_amb_psia, mn_flight,
                                    Cfg, T_amb_R),
            Nozzle_calculate_throat(H, state5, PsiToPa(P_amb_psia)))

\* Nozzle.calculate_design_point(state5, W_air_pps, P_amb_psia, mn_flight, Cfg, Cd, T_amb_R)
\*   -> (Fnet, Fg, Fd, A_th in cm^2)
Nozzle_calculate_design_point(H, state5, W_air_pps, P_amb_psia, mn_flight, Cfg, Cd, T_amb_R) ==
    LET P_amb_Pa == PsiToPa(P_amb_psia)
        W_total_kgps == state5.W_kgps
        \* t is what _calculate_thrust returned, th what _calculate_throat did
        ret(t, th) ==
            LET \* W_total / (rho * V * Cd), in cm^2; the divisor is a numpy
                \* float, so a Cd of 0 gives inf or nan and raises nothing
                A_th_m2_calc ==
                    IF Cd = 0 THEN DivByZero(W_total_kgps)
                    ELSE (((W_total_kgps * 10000) \div (th.rho * th.V)) * 1000) \div Cd
                fail(e, w) == [exc |-> e, Fnet |-> 0, Fg |-> 0, Fd |-> 0,
                               A_th |-> 0, warn |-> w, th |-> th]
            IN  IF t.exc # "none" THEN fail(t.exc, t.warn)
                ELSE IF th.exc # "none" THEN fail(th.exc, t.warn \cup th.warn)
                ELSE IF th.rho * th.V = 0
                  THEN fail("ValueError", t.warn \cup th.warn)
                ELSE [exc |-> "none", Fnet |-> t.Fnet, Fg |-> t.Fg, Fd |-> t.Fd,
                      A_th |-> A_th_m2_calc, warn |-> t.warn \cup th.warn,
                      th |-> th]
    IN  ret(Nozzle_calculate_thrust(H, state5, W_air_pps, P_amb_psia, mn_flight,
                                    Cfg, T_amb_R),
            Nozzle_calculate_throat(H, state5, P_amb_Pa))

(***************************************************************************)
(* run_design_point.py: run_design_point_check(), one action per station   *)
(***************************************************************************)
NoState == GasState(0, 0)

NoStations == [air |-> 0, fuel |-> 0, s0 |-> NoState, s2 |-> NoState,
               s3 |-> NoState, s4 |-> NoState, s5 |-> NoState]

\* the second half of a round trip: not run, or run with the value it returned
NoRoundTrip == [run |-> FALSE, exc |-> "none", val |-> 0, arg |-> 0]

\* no throat computed yet
NoThroat == [exc |-> "none", rho |-> 0, V |-> 0, h_th |-> 0, P_th |-> 0,
             P_crit |-> 0, warn |-> {}]

NoOut == [Pt2 |-> 0, Tt2 |-> 0, Pt3 |-> 0, Tt3 |-> 0, W_comp |-> 0, far |-> 0,
          ier4 |-> 0, ier5 |-> 0, W_total |-> 0, Fnet |-> 0, A_th |-> 0,
          W_calc |-> 0, SFC |-> 0, rt4 |-> NoRoundTrip, rt5 |-> NoRoundTrip,
          nozzle |-> "none", th |-> NoThroat]

\* the inputs of run_design_point_check as the script sets them
DesignInputs ==
    [P_amb_psia |-> 1470, T_amb_R |-> 5187, MN_flight |-> 0, PR_comp |-> 7000,
     Eff_comp |-> 870, W_air_pps |-> 4400, Tt4_R_target |-> 21000,
     Burner_dP |-> 50, Eff_turb |-> 850, Cfg |-> 980, Cd |-> 990]

Crash(e) == pc' = "crashed" /\ exc' = e

\* lines 70-78: setup_gas(), air.TP = T_amb_K, P_amb_Pa, state0
DP_Station0 ==
    /\ cfg.prog = "design" /\ pc = "start"
    /\ LET g == setup_gas(heap)
           r == Set_TP(g.H[g.air], RankineToKelvin(cfg.d.T_amb_R),
                       PsiToPa(cfg.d.P_amb_psia))
       IN  IF ~r.ok
             THEN Crash("CanteraError") /\ heap' = g.H /\ UNCHANGED st
           ELSE /\ heap' = [g.H EXCEPT ![g.air] = r.g]
                /\ st' = [st EXCEPT !.air = g.air, !.fuel = g.fuel,
                             !.s0 = GasState(g.air, PpsToKgps(cfg.d.W_air_pps))]
                /\ pc' = "d0" /\ UNCHANGED exc
    /\ UNCHANGED <<cfg, out, warn, pdict, evals, sol>>

\* lines 80-86: Inlet.calculate_ram, air.TP = Tt2, Pt2, state2
DP_Inlet ==
    /\ cfg.prog = "design" /\ pc = "d0"
    /\ \E i \in {calculate_ram(heap, cfg.d.P_amb_psia, cfg.d.T_amb_R,
                              cfg.d.MN_flight, st.air)} :
       LET r == Set_TP(i.H[st.air], RankineToKelvin(i.Tt), PsiToPa(i.Pt))
       IN  IF i.exc # "none" THEN Crash(i.exc) /\ heap' = i.H /\ UNCHANGED <<st, out>>
           ELSE IF ~r.ok
             THEN Crash("CanteraError") /\ heap' = i.H /\ UNCHANGED <<st, out>>
           ELSE /\ heap' = [i.H EXCEPT ![st.air] = r.g]
                /\ st' = [st EXCEPT !.s2 = GasState(st.air, st.s0.W_kgps)]
                /\ out' = [out EXCEPT !.Pt2 = i.Pt, !.Tt2 = i.Tt]
                /\ pc' = "d2" /\ UNCHANGED exc
    /\ UNCHANGED <<cfg, warn, pdict, evals, sol>>

\* lines 88-96: Compressor.calculate, air.TP = Tt3, Pt3, state3
DP_Compressor ==
    /\ cfg.prog = "design" /\ pc = "d2"
    /\ \E c \in {Compressor_calculate(heap, out.Tt2, out.Pt2, cfg.d.PR_comp,
                                     cfg.d.Eff_comp, st.air)} :
       LET r == Set_TP(c.H[st.air], RankineToKelvin(c.Tt), PsiToPa(c.Pt))
       IN  IF c.exc # "none" THEN Crash(c.exc) /\ heap' = c.H /\ UNCHANGED <<st, out>>
           ELSE IF ~r.ok
             THEN Crash("CanteraError") /\ heap' = c.H /\ UNCHANGED <<st, out>>
           ELSE /\ heap' = [c.H EXCEPT ![st.air] = r.g]
                /\ st' = [st EXCEPT !.s3 = GasState(st.air, st.s0.W_kgps)]
                /\ out' = [out EXCEPT !.Pt3 = c.Pt, !.Tt3 = c.Tt, !.W_comp = c.W]
                /\ pc' = "d3" /\ UNCHANGED exc
    /\ UNCHANGED <<cfg, warn, pdict, evals, sol>>

\* lines 98-117: Burner.calculate_from_T4, state4.W_kgps = W_air + W_fuel
DP_Burner ==
    /\ cfg.prog = "design" /\ pc = "d3"
    /\ \E b \in {Burner_calculate_from_T4(heap, st.s3, cfg.d.Tt4_R_target,
                                         cfg.d.Burner_dP, st.fuel)} :
       LET W_air_kgps == st.s0.W_kgps
           W_fuel_kgps == MulDiv(W_air_kgps, b.far, FAR_ONE)
           W_total_kgps == W_air_kgps + W_fuel_kgps
       IN  /\ heap' = b.H
           /\ warn' = warn \cup b.warn
           /\ IF b.exc # "none" THEN Crash(b.exc) /\ UNCHANGED <<st, out>>
              ELSE /\ st' = [st EXCEPT !.s4 = GasState(b.state4.gas, W_total_kgps)]
                   /\ out' = [out EXCEPT !.far = b.far, !.ier4 = b.ier,
                                        !.W_total = W_total_kgps]
                   /\ pc' = "d4" /\ UNCHANGED exc
    /\ UNCHANGED <<cfg, pdict, evals, sol>>

\* lines 119-125: Turbine.calculate_from_work, state5.W_kgps = state4.W_kgps
DP_Turbine ==
    /\ cfg.prog \in {"design", "turbine"} /\ pc = "d4"
    /\ \E t \in {Turbine_calculate_from_work(heap, st.s4, out.W_comp,
                                            cfg.d.Eff_turb, out.far)} :
           /\ heap' = t.H
           /\ warn' = warn \cup t.warn
           /\ IF t.exc # "none" THEN Crash(t.exc) /\ UNCHANGED <<st, out>>
              ELSE /\ st' = [st EXCEPT !.s5 = GasState(t.state5.gas, st.s4.W_kgps)]
                   /\ out' = [out EXCEPT !.ier5 = t.ier]
                   /\ pc' = "d5" /\ UNCHANGED exc
    /\ UNCHANGED <<cfg, pdict, evals, sol>>

\* lines 127-140: Nozzle.calculate_design_point, SFC = Wf * 3600 / Fnet.  Fnet
\* is a numpy float: a net thrust of 0 gives an SFC of inf or nan and the run
\* goes on to print its table
DP_Nozzle ==
    /\ cfg.prog = "design" /\ pc = "d5"
    /\ \E n \in {Nozzle_calculate_design_point(heap, st.s5, cfg.d.W_air_pps,
                    cfg.d.P_amb_psia, cfg.d.MN_flight, cfg.d.Cfg, cfg.d.Cd,
                    cfg.d.T_amb_R)} :
       LET W_fuel_pps == KgpsToPps(out.W_total - st.s0.W_kgps)
           o == [out EXCEPT !.nozzle = n.exc, !.th = n.th]
       IN  /\ warn' = warn \cup n.warn
           /\ IF n.exc # "none" THEN Crash(n.exc) /\ out' = o
              ELSE /\ out' = [o EXCEPT !.Fnet = n.Fnet, !.A_th = n.A_th,
                                      !.SFC = IF n.Fnet = 0
                                                THEN DivByZero(W_fuel_pps)
                                              ELSE DivRatio(W_fuel_pps * 36, n.Fnet)]
                   /\ pc' = "done" /\ UNCHANGED exc
    /\ UNCHANGED <<cfg, heap, st, pdict, evals, sol>>

(***************************************************************************)
(* run_off_design_solver.py                                                *)
(***************************************************************************)
NC_REF_RPM == 16540

\* Nc_rpm / 16540.0
Nc_norm(Nc_rpm) == (Nc_rpm * 1000) \div NC_REF_RPM

\* get_compressor_map(Nc_rpm, R_line) -> (PR_comp, Wc_pps_norm, Eff_comp)
get_compressor_map(Nc_rpm, R_line) ==
    LET n == Nc_norm(Nc_rpm)
        PR_comp == ((3000 + 4 * n) * R_line) \div 1000
        Wc_pps_norm == ((15000 + 29 * n) * (2000 - R_line)) \div 10000
        Eff_comp == 870 - ((1000 - n) * (1000 - n)) \div 1000
                        - ((1000 - R_line) * (1000 - R_line)) \div 1000
    IN  [PR |-> IF PR_comp < 1000 THEN 1000 ELSE PR_comp,
         Wc |-> IF Wc_pps_norm < 100 THEN 100 ELSE Wc_pps_norm,
         Eff |-> IF Eff_comp < 500 THEN 500 ELSE Eff_comp]

\* get_turbine_map(Nc_rpm, R_line) -> (PR_turb, Eff_turb)
get_turbine_map(Nc_rpm, R_line) ==
    LET n == Nc_norm(Nc_rpm)
    IN  [PR |-> ((1500 + (1163 * n) \div 1000) * (800 + R_line \div 5)) \div 1000,
         Eff |-> 850 - ((1000 - n) * (1000 - n)) \div 1000]

\* uncorrect_flow(Wc_pps, Pt_in_psia, Tt_in_R) = Wc * delta / sqrt(theta)
uncorrect_flow(Wc_pps, Pt_in_psia, Tt_in_R) ==
    LET theta == (Tt_in_R * 1000) \div T_STD_R
        delta == (Pt_in_psia * 1000) \div P_STD_PSIA
    IN  (Wc_pps * delta) \div Isqrt(theta * 1000)

\* the params dict of find_operating_point
SolverParams ==
    [P_amb_psia |-> P_STD_PSIA, T_amb_R |-> T_STD_R, mn_flight |-> 0,
     far_target |-> 1710, Burner_dP |-> 50, Cfg |-> 980, Cd |-> 1000]

A_th_m2_fixed == 882       \* 0.0882 m^2

\* the keys of performance_data
PerfKeys == {"Fnet_lbf", "SFC", "W_air_pps", "W_fuel_pps", "far_target", "Nc_rpm",
             "R_line", "PR_comp", "PR_turb", "Tt4", "Pt4", "Pt5", "Tt5"}

\* performance_data = {}
EmptyPerf == [keys |-> {}, Fnet_lbf |-> 0, W_air_pps |-> 0, PR_comp |-> 0,
              PR_turb |-> 0, Tt4 |-> 0, Pt4 |-> 0, Pt5 |-> 0, Tt5 |-> 0]

\* [1e6, 1e6], in 1/1000
SentinelErrors == <<SENTINEL * 1000, SENTINEL * 1000>>

\* The try block of calculate_performance runs station by station.  Each
\* station takes the locals so far (e) and gives the locals after it; e.exc is
\* the exception in flight, which every later station passes on untouched.
PerfLocals(H) ==
    [exc |-> "none", H |-> H, warn |-> {}, air |-> 0, fuel |-> 0,
     Pt2_psia |-> 0, Tt2_R |-> 0, PR_comp |-> 0, W_air_pps |-> 0,
     W_air_kgps |-> 0, Pt3_psia |-> 0, Tt3_R |-> 0, W_comp_jkg |-> 0,
     state3 |-> GasState(0, 0),
     state4 |-> GasState(0, 0), far |-> 0, PR_turb |-> 0, W_turb_jkg |-> 0,
     W_total_kgps |-> 0, state5 |-> GasState(0, 0), Fnet_lbf |-> 0,
     W_calc_pps |-> 0]

\* 1. air, fuel = setup_gas()
perf_setup(H) ==
    LET ret(g) == [PerfLocals(g.H) EXCEPT !.air = g.air, !.fuel = g.fuel]
    IN  ret(setup_gas(H))

\* 3. Pt2_psia, Tt2_R = Inlet.calculate_ram(P_amb_psia, T_amb_R, mn_flight, air)
perf_inlet(e, params) ==
    LET ret(i) == IF i.exc # "none" THEN [e EXCEPT !.exc = i.exc, !.H = i.H]
                  ELSE [e EXCEPT !.H = i.H, !.Pt2_psia = i.Pt, !.Tt2_R = i.Tt]
    IN  IF e.exc # "none" THEN e
        ELSE ret(calculate_ram(e.H, params.P_amb_psia, params.T_amb_R,
                               params.mn_flight, e.air))

\* 4. the compressor map, the air flow and Compressor.calculate
perf_compressor(e, x) ==
    LET cm == get_compressor_map(x[1], x[2])
        W_air_pps == uncorrect_flow(cm.Wc, e.Pt2_psia, e.Tt2_R)
        ret(c) ==
            IF c.exc # "none" THEN [e EXCEPT !.exc = c.exc, !.H = c.H]
            ELSE [e EXCEPT !.H = c.H, !.PR_comp = cm.PR, !.W_air_pps = W_air_pps,
                           !.W_air_kgps = PpsToKgps(W_air_pps),
                           !.Pt3_psia = c.Pt, !.Tt3_R = c.Tt,
                           !.W_comp_jkg = c.W]
    IN  IF e.exc # "none" THEN e
        ELSE ret(Compressor_calculate(e.H, e.Tt2_R, e.Pt2_psia, cm.PR, cm.Eff, e.air))

\* 5. state3 = GasState(air, W_air_kgps), state3.update(Tt3, Pt3) and
\*    Burner.calculate_from_far(state3, far_target, Burner_dP, fuel)
perf_burner(e, params) ==
    LET state3 == GasState(e.air, e.W_air_kgps)
        ret(r3) ==
            LET burnt(b) ==
                    IF b.exc # "none"
                      THEN [e EXCEPT !.exc = b.exc, !.H = b.H, !.warn = b.warn]
                    ELSE [e EXCEPT !.H = b.H, !.warn = b.warn, !.state3 = state3,
                                   !.state4 = b.state4, !.far = params.far_target]
            IN  IF ~r3.ok THEN [e EXCEPT !.exc = "CanteraError"]
                ELSE burnt(Burner_calculate_from_far(
                               r3.H, state3,
                               params.far_target, params.Burner_dP, e.fuel))
    IN  IF e.exc # "none" THEN e
        ELSE ret(update(e.H, state3, RankineToKelvin(e.Tt3_R), PsiToPa(e.Pt3_psia)))

\* 6. the turbine map, Turbine.calculate and W_total_kgps
perf_turbine(e, x) ==
    LET tm == get_turbine_map(x[1], x[2])
        W_total_kgps == MulDiv(e.W_air_kgps, FAR_ONE + e.far, FAR_ONE)
        ret(t) ==
            IF t.exc # "none" THEN [e EXCEPT !.exc = t.exc, !.H = t.H]
            ELSE [e EXCEPT !.H = t.H, !.PR_turb = tm.PR, !.W_turb_jkg = t.W_turb,
                           !.W_total_kgps = W_total_kgps,
                           !.state5 = [t.state5 EXCEPT !.W_kgps = W_total_kgps]]
    IN  IF e.exc # "none" THEN e
        ELSE ret(Turbine_calculate(e.H, e.state4, tm.PR, tm.Eff, e.far))

\* 7. Nozzle.calculate on the fixed throat area
perf_nozzle(e, params, A_th) ==
    LET ret(n) ==
            IF n.exc # "none"
              THEN [e EXCEPT !.exc = n.exc, !.warn = e.warn \cup n.warn]
            ELSE [e EXCEPT !.warn = e.warn \cup n.warn, !.Fnet_lbf = n.Fnet,
                           !.W_calc_pps = n.W_calc]
    IN  IF e.exc # "none" THEN e
        ELSE ret(Nozzle_calculate(e.H, e.state5, e.W_air_pps, params.P_amb_psia,
                                  params.mn_flight, params.Cfg, params.Cd,
                                  params.T_amb_R, A_th))

\* 8. the errors, (Power_turb_W - Power_comp_W) / 1e5 in 1/1000 and
\*    (W_air_pps - W_calc_pps) / 100 in 1/1000, and performance_data
perf_result(e) ==
    LET err_work == MulDiv(e.W_turb_jkg, e.W_total_kgps, 1000)
                      - MulDiv(e.W_comp_jkg, e.W_air_kgps, 1000)
        err_flow == (e.W_air_pps - e.W_calc_pps) \div 10
    IN  IF e.exc # "none"
          THEN [exc |-> e.exc, H |-> e.H, warn |-> e.warn, errors |-> <<0, 0>>,
                perf |-> EmptyPerf]
        ELSE [exc |-> "none", H |-> e.H, warn |-> e.warn,
              errors |-> <<err_work, err_flow>>,
              perf |-> [keys |-> PerfKeys, Fnet_lbf |-> e.Fnet_lbf,
                        W_air_pps |-> e.W_air_pps, PR_comp |-> e.PR_comp,
                        PR_turb |-> e.PR_turb, Tt4 |-> T_R(e.H, e.state4),
                        Pt4 |-> P_psia(e.H, e.state4),
                        Pt5 |-> P_psia(e.H, e.state5),
                        Tt5 |-> T_R(e.H, e.state5)]]

\* the try block of calculate_performance: what it returns, or what it raises
performance_try(H, params, A_th, x) ==
    perf_result(
      perf_nozzle(
        perf_turbine(
          perf_burner(
            perf_compressor(
              perf_inlet(perf_setup(H), params), x), params), x), params, A_th))

\* a calculate_performance without the try / except: the failure of a station
\* goes to the caller
calculate_performance_propagating(H, params, A_th, x) ==
    LET ret(r) == [raised |-> r.exc, caught |-> "none", errors |-> r.errors,
                   perf |-> r.perf, H |-> r.H, params |-> params, warn |-> r.warn]
    IN  ret(performance_try(H, params, A_th, x))

\* calculate_performance(params, A_th_m2_fixed, x) -> (errors, performance_data):
\* whatever the try block raises is caught and answered with the sentinel.
\* H is the heap the call finds and leaves, params the dict as the call leaves it.
calculate_performance(H, params, A_th, x) ==
    LET ret(r) ==
            IF r.exc # "none"
              THEN [raised |-> "none", caught |-> r.exc, errors |-> SentinelErrors,
                    perf |-> EmptyPerf, H |-> r.H, params |-> params,
                    warn |-> r.warn \cup {Warning("solver_error", x[1])}]
            ELSE [raised |-> "none", caught |-> "none", errors |-> r.errors,
                  perf |-> r.perf, H |-> r.H, params |-> params, warn |-> r.warn]
    IN  ret(performance_try(H, params, A_th, x))

(***************************************************************************)
(* The round trips of the testable properties, run on the design-point     *)
(* stations.  The objects a round trip creates are dropped when it returns.*)
(***************************************************************************)
\* Burner.calculate_from_far on the same state3, dP and fuel with the far that
\* Burner.calculate_from_T4 returned
RT_Burner ==
    /\ cfg.prog = "design" /\ pc = "d4" /\ ~out.rt4.run
    /\ \E b \in {Burner_calculate_from_far(heap, st.s3, out.far, cfg.d.Burner_dP,
                                          st.fuel)} :
           out' = [out EXCEPT !.rt4 =
                      [run |-> TRUE, exc |-> b.exc, arg |-> out.far,
                       val |-> IF b.exc = "none" THEN T_R(b.H, b.state4) ELSE 0]]
    /\ UNCHANGED <<cfg, pc, heap, st, warn, exc, pdict, evals, sol>>

\* Turbine.calculate on the same state4, eff and far with the pressure ratio
\* inlet pressure / resulting exit pressure.  The state it returns is kept:
\* gas is its handle.
RT_Turbine ==
    /\ cfg.prog = "design" /\ pc = "d5" /\ ~out.rt5.run
    /\ \E PR_turb \in {DivRatio(P_Pa(heap, st.s4), P_Pa(heap, st.s5))} :
       \E t \in {Turbine_calculate(heap, st.s4, PR_turb, cfg.d.Eff_turb, out.far)} :
           /\ out' = [out EXCEPT !.rt5 =
                         [run |-> TRUE, exc |-> t.exc, arg |-> PR_turb,
                          val |-> t.W_turb, gas |-> t.state5.gas]]
           /\ heap' = t.H
    /\ UNCHANGED <<cfg, pc, st, warn, exc, pdict, evals, sol>>

(***************************************************************************)
(* The nozzle on a turbine-exit state of its own                           *)
(***************************************************************************)
\* Nozzle.calculate_design_point on the scenario's state5
NZ_DesignPoint ==
    /\ cfg.prog = "nozzle" /\ pc = "start"
    /\ \E n \in {Nozzle_calculate_design_point(heap, st.s5, cfg.d.W_air_pps,
                    cfg.d.P_amb_psia, cfg.d.MN_flight, cfg.d.Cfg, cfg.d.Cd,
                    cfg.d.T_amb_R)} :
       LET o == [out EXCEPT !.nozzle = n.exc, !.th = n.th]
       IN  /\ warn' = warn \cup n.warn
           /\ IF n.exc # "none" THEN Crash(n.exc) /\ out' = o
              ELSE /\ out' = [o EXCEPT !.Fnet = n.Fnet, !.A_th = n.A_th]
                   /\ pc' = "nz" /\ UNCHANGED exc
    /\ UNCHANGED <<cfg, heap, st, pdict, evals, sol>>

\* Nozzle.calculate on the same state with the throat area just computed
NZ_Calculate ==
    /\ cfg.prog = "nozzle" /\ pc = "nz"
    /\ \E n \in {Nozzle_calculate(heap, st.s5, cfg.d.W_air_pps, cfg.d.P_amb_psia,
                    cfg.d.MN_flight, cfg.d.Cfg, cfg.d.Cd, cfg.d.T_amb_R, out.A_th)} :
           /\ warn' = warn \cup n.warn
           /\ IF n.exc # "none" THEN Crash(n.exc) /\ UNCHANGED out
              ELSE /\ out' = [out EXCEPT !.W_calc = n.W_calc]
                   /\ pc' = "done" /\ UNCHANGED exc
    /\ UNCHANGED <<cfg, heap, st, pdict, evals, sol>>

(***************************************************************************)
(* Trial evaluations: calculate_performance as the solver's objective      *)
(* calls it, at any trial point and in any order                           *)
(***************************************************************************)
MaxTrials == 2

NcPoints == {12405, 16540}
RLinePoints == {-4000, 500, 880, 1000, 1200}
TrialPoints == {<<n, r>> : n \in NcPoints, r \in RLinePoints}

\* objective_function(x): one call of calculate_performance.  What the call
\* allocates is local to it and dropped when it returns.
Trial ==
    /\ cfg.prog = "trials" /\ pc = "start" /\ Len(evals) < MaxTrials
    /\ \E x \in TrialPoints :
       \E r \in {calculate_performance(heap, pdict, A_th_m2_fixed, x)} :
             /\ evals' = Append(evals, [x |-> x, errors |-> r.errors,
                                        keys |-> r.perf.keys, caught |-> r.caught])
             /\ pdict' = r.params
             /\ heap' = SubSeq(r.H, 1, Len(heap))
             /\ warn' = warn \cup r.warn
             /\ IF r.raised # "none" THEN Crash(r.raised) ELSE UNCHANGED <<pc, exc>>
    /\ UNCHANGED <<cfg, st, out, sol>>

(***************************************************************************)
(* find_operating_point: root(objective_function, x0, method='lm')         *)
(***************************************************************************)
MaxIter == 8               \* the iteration budget of the search
NC_STEP == 827             \* trial step in Nc_rpm, 5 % of the reference speed
R_STEP == 50               \* trial step in R_line

x0 == <<NC_REF_RPM, 1000>>

Min(a, b) == IF a < b THEN a ELSE b

\* the squared norm of the residual vector, in 1/100, each term saturated
Cost(errors) ==
    LET a == Min(Abs(errors[1]) \div 100, 30000)
        b == Min(Abs(errors[2]) \div 100, 30000)
    IN  a * a + b * b

objective_function(x) == (calculate_performance(heap, pdict, A_th_m2_fixed, x)).errors

\* the points one iteration evaluates the objective at: the point itself first,
\* then its trial steps
StepPoints(x) ==
    <<x>> \o [k \in 1..8 |->
               LET n == IF k <= 4 THEN k - 1 ELSE k
               IN  <<x[1] + ((n \div 3) - 1) * NC_STEP, x[2] + ((n % 3) - 1) * R_STEP>>]

Neighbours(x) == {StepPoints(x)[k] : k \in 2..9}

\* sol = root(...) starts at x0
LM_Start ==
    /\ cfg.prog = "solve" /\ pc = "start"
    /\ sol' = [status |-> "running", x |-> x0, iter |-> 0]
    /\ pc' = "root"
    /\ UNCHANGED <<cfg, heap, st, out, warn, exc, pdict, evals>>

\* the termination tests of the method: no trial step lowers the squared
\* residual norm
LM_converged(cost, x, iter) == \A y \in Neighbours(x) : cost[y] >= cost[x]

\* one iteration of the least-squares search: it evaluates the objective at
\* the point and at its trial steps (each a call of calculate_performance,
\* which prints its warnings and drops what it allocated), stops with success
\* where the termination tests are met, stops without success when the budget
\* is spent, and otherwise moves to the trial step of the lowest squared
\* residual norm.  What an objective call raises goes through root(...) to the
\* caller.
LM_Step ==
    /\ cfg.prog = "solve" /\ pc = "root" /\ sol.status = "running"
    /\ \E pts \in {StepPoints(sol.x)} :
       \E perf \in {[k \in 1..Len(pts) |->
                        calculate_performance(heap, pdict, A_th_m2_fixed, pts[k])]} :
       \E cost \in {[y \in Neighbours(sol.x) \cup {sol.x} |->
                        Cost(perf[CHOOSE k \in 1..Len(pts) : pts[k] = y].errors)]} :
       LET best == CHOOSE y \in Neighbours(sol.x) :
                      \A z \in Neighbours(sol.x) : cost[y] <= cost[z]
           raising == {k \in 1..Len(pts) : perf[k].raised # "none"}
       IN  /\ evals' = evals \o [k \in 1..Len(pts) |->
                                   [x |-> pts[k], errors |-> perf[k].errors,
                                    keys |-> perf[k].perf.keys,
                                    caught |-> perf[k].caught]]
           /\ warn' = warn \cup UNION {perf[k].warn : k \in 1..Len(pts)}
           /\ pdict' = perf[Len(pts)].params
           /\ IF raising # {}
                THEN /\ Crash(perf[CHOOSE k \in raising : TRUE].raised)
                     /\ UNCHANGED sol
              ELSE /\ UNCHANGED <<pc, exc>>
                   /\ IF LM_converged(cost, sol.x, sol.iter)
                        THEN sol' = [sol EXCEPT !.status = "success"]
                      ELSE IF sol.iter >= MaxIter
                        THEN sol' = [sol EXCEPT !.status = "failed"]
                      ELSE sol' = [sol EXCEPT !.x = best, !.iter = @ + 1]
    /\ UNCHANGED <<cfg, heap, st, out>>

\* lines 208-228: the success branch evaluates the reported point once more and
\* prints the fields of its performance record
FOP_Success ==
    /\ cfg.prog = "solve" /\ pc = "root" /\ sol.status = "success"
    /\ \E r \in {calculate_performance(heap, pdict, A_th_m2_fixed, sol.x)} :
           /\ evals' = Append(evals, [x |-> sol.x, errors |-> r.errors,
                                      keys |-> r.perf.keys, caught |-> r.caught])
           /\ warn' = warn \cup r.warn
           /\ IF "Fnet_lbf" \notin r.perf.keys
                THEN pc' = "success_branch" /\ exc' = "KeyError" /\ UNCHANGED out
              ELSE /\ out' = [out EXCEPT !.Fnet = r.perf.Fnet_lbf]
                   /\ pc' = "success_branch" /\ UNCHANGED exc
    /\ UNCHANGED <<cfg, heap, st, pdict, sol>>

\* lines 230-234: the failure branch prints sol.message
FOP_Failure ==
    /\ cfg.prog = "solve" /\ pc = "root" /\ sol.status = "failed"
    /\ warn' = warn \cup {Warning("solver_message", sol.iter)}
    /\ pc' = "failure_branch"
    /\ UNCHANGED <<cfg, heap, st, out, exc, pdict, evals, sol>>

(***************************************************************************)
(* Scenarios                                                               *)
(***************************************************************************)
\* far at and above which the equilibrium solver fails to converge; 0: never
EqFailSet == {0, 1700, 3000}

\* ambient conditions: sea level, and 5 psia at 400 R
Ambients == {[P |-> 1470, T |-> 5187], [P |-> 500, T |-> 4000]}

DesignScenarios ==
    {[DesignInputs EXCEPT !.P_amb_psia = a.P, !.T_amb_R = a.T, !.MN_flight = mn,
                          !.PR_comp = pr, !.Eff_comp = ec, !.Tt4_R_target = t4,
                          !.Eff_turb = et] :
       a \in Ambients, mn \in {0, 800}, pr \in {1010, 2000, 7000},
       ec \in {500, 870, 1000}, t4 \in {10000, 21000, 70000}, et \in {400, 850}}
      \cup {[DesignInputs EXCEPT !.Burner_dP = 1000]}
      \cup {[DesignInputs EXCEPT !.T_amb_R = 2200, !.W_air_pps = w] : w \in {0, 4400}}

\* turbine-exit states for the nozzle: temperature, pressure, discharge coefficient
NozzleScenarios ==
    {[T5 |-> t, P5 |-> p, Cd |-> cd] :
       t \in {5000, 9000}, p \in {900, 1013, 1500, 2280, 2281, 2283, 4000},
       cd \in {0, 990, 1000}}

\* turbine-inlet states and required works for the turbine on its own:
\* temperature, pressure, work per kg of air
TurbineScenarios ==
    {[T4 |-> t, P4 |-> p, W |-> w] :
       t \in {10000, 14000}, p \in {5000, 10000}, w \in {3000, 9500, 20000}}

SolverScenarios ==
    {[SolverParams EXCEPT !.mn_flight = mn, !.far_target = f] :
       mn \in {0, 800}, f \in {1000, 1710}}
      \cup {[SolverParams EXCEPT !.Burner_dP = 1000]}
      \cup {[SolverParams EXCEPT !.T_amb_R = t] : t \in {2200, 2490, 7000}}

NoSol == [status |-> "idle", x |-> x0, iter |-> 0]

InitCommon ==
    /\ pc = "start" /\ out = NoOut /\ warn = {} /\ exc = "none"
    /\ evals = <<>> /\ sol = NoSol

InitDesign ==
    /\ \E d \in DesignScenarios, e \in EqFailSet :
         cfg = [prog |-> "design", d |-> d, eqFailFrom |-> e, p |-> SolverParams]
    /\ heap = <<>> /\ st = NoStations /\ pdict = SolverParams
    /\ InitCommon

InitNozzle ==
    /\ \E z \in NozzleScenarios :
         /\ cfg = [prog |-> "nozzle", d |-> [DesignInputs EXCEPT !.Cd = z.Cd],
                   eqFailFrom |-> 0, p |-> SolverParams]
         /\ heap = <<[phase |-> "nDodecane_IG",
                      comp |-> [kind |-> "burned", far |-> 800],
                      T |-> z.T5, P |-> z.P5]>>
    /\ st = [NoStations EXCEPT !.s5 = GasState(1, 20117)]
    /\ pdict = SolverParams
    /\ InitCommon

\* Turbine.calculate_from_work called on a burner-exit state of its own
InitTurbine ==
    /\ \E z \in TurbineScenarios :
         /\ cfg = [prog |-> "turbine", d |-> DesignInputs, eqFailFrom |-> 0,
                   p |-> SolverParams]
         /\ heap = <<[phase |-> "nDodecane_IG",
                      comp |-> [kind |-> "burned", far |-> 1700],
                      T |-> z.T4, P |-> z.P4]>>
         /\ out = [NoOut EXCEPT !.W_comp = z.W, !.far = 1700]
    /\ st = [NoStations EXCEPT !.s4 = GasState(1, 20297)]
    /\ pdict = SolverParams
    /\ pc = "d4" /\ warn = {} /\ exc = "none"
    /\ evals = <<>> /\ sol = NoSol

InitSolver ==
    /\ \E p \in SolverScenarios, e \in {0, 1700}, g \in {"trials", "solve"} :
         /\ cfg = [prog |-> g, d |-> DesignInputs, eqFailFrom |-> e, p |-> p]
         /\ pdict = p
    /\ heap = <<>> /\ st = NoStations
    /\ InitCommon

Init == InitDesign \/ InitNozzle \/ InitTurbine \/ InitSolver

Next ==
    \/ DP_Station0 \/ DP_Inlet \/ DP_Compressor \/ DP_Burner \/ DP_Turbine
    \/ DP_Nozzle \/ RT_Burner \/ RT_Turbine
    \/ NZ_DesignPoint \/ NZ_Calculate
    \/ Trial
    \/ LM_Start \/ LM_Step \/ FOP_Success \/ FOP_Failure

Spec == Init /\ [][Next]_vars

(***************************************************************************)
(* Properties                                                              *)
(***************************************************************************)
\* the design-point run is past Inlet.calculate_ram
PastInlet == cfg.prog = "design" /\ pc \notin {"start", "d0"}

\* C1: at flight Mach number 0 Inlet.calculate_ram returns the ambient
\* pressure and the ambient temperature it was given, digit for digit, and
\* raises nothing
C1_InletIdentityAtMachZero ==
    (PastInlet /\ cfg.d.MN_flight = 0)
      => /\ st.s2.gas # 0
         /\ out.Pt2 = cfg.d.P_amb_psia
         /\ out.Tt2 = cfg.d.T_amb_R

\* the inlet has returned at Mach 0 for the ambient of 5 psia and 400 R
C1_Witness ==
    /\ PastInlet /\ cfg.d.MN_flight = 0 /\ pc = "d2"
    /\ cfg.d.P_amb_psia = 500 /\ out.Pt2 = 500 /\ out.Tt2 = 4000

\* the design-point run has called Compressor.calculate
CompressorCalled == cfg.prog = "design" /\ st.s2.gas # 0 /\ pc # "d2"

\* C10: for a pressure ratio above 1 and an efficiency in (0, 1] the
\* compressor returns; its exit pressure is the inlet pressure times the
\* pressure ratio, to within one unit of the pressure resolution (1 hPa, under
\* 0.02 psi) at the inlet and at the exit; its exit temperature is not below
\* the inlet temperature; and its specific work is above 0
C10_CompressorRaisesPressureAndTemperature ==
    (CompressorCalled /\ cfg.d.PR_comp > 1000
       /\ cfg.d.Eff_comp > 0 /\ cfg.d.Eff_comp <= 1000)
      => /\ st.s3.gas # 0
         /\ Abs(out.Pt3 * 1000 - out.Pt2 * cfg.d.PR_comp) <= 2 * cfg.d.PR_comp + 2000
         /\ out.Tt3 >= out.Tt2
         /\ out.W_comp > 0

\* the compressor has returned for the ratio 7 at 87 % and for the ratio
\* 1.01 at 100 %, where the rise is least
C10_Witness ==
    /\ CompressorCalled /\ pc = "d3"
    /\ \/ cfg.d.PR_comp = 7000 /\ cfg.d.Eff_comp = 870 /\ out.W_comp > 4000
       \/ cfg.d.PR_comp = 1010 /\ cfg.d.Eff_comp = 1000 /\ out.W_comp < 20

\* Nozzle.calculate_design_point has been called: by the nozzle run, or by the
\* design-point run on its station 5
NozzleDesignCalled ==
    \/ cfg.prog = "nozzle" /\ pc # "start"
    \/ cfg.prog = "design" /\ st.s5.gas # 0 /\ pc # "d5"

\* _calculate_throat has settled on a throat state
ThroatComputed ==
    NozzleDesignCalled /\ out.nozzle # "CanteraError" /\ out.th.exc = "none"

\* the ambient pressure the nozzle was given, in Pa
NozzleAmbient == PsiToPa(cfg.d.P_amb_psia)

\* C8: the throat pressure is the critical pressure when that exceeds the
\* ambient pressure and the ambient pressure otherwise; where the two are
\* equal it is that common value
C8_ThroatPressureChokedOrUnchoked ==
    ThroatComputed
      => /\ out.th.P_crit > NozzleAmbient => out.th.P_th = out.th.P_crit
         /\ out.th.P_crit <= NozzleAmbient => out.th.P_th = NozzleAmbient
         /\ out.th.P_crit = NozzleAmbient
              => out.th.P_th = out.th.P_crit /\ out.th.P_th = NozzleAmbient

\* a throat computed where the critical pressure equals the ambient pressure
C8_Witness ==
    /\ ThroatComputed /\ cfg.prog = "nozzle"
    /\ out.th.P_crit = NozzleAmbient /\ out.th.P_th = NozzleAmbient

\* a choked throat has been computed
C8_WitnessChoked ==
    ThroatComputed /\ out.th.P_crit > NozzleAmbient /\ out.th.P_th = out.th.P_crit

\* C9: with a throat state the property engine could evaluate,
\* calculate_design_point raises ValueError exactly when throat density times
\* throat velocity is zero, and then returns no area; in every other case it
\* returns, and the area it returns times density, velocity and discharge
\* coefficient gives back the total mass flow (to within the last digit of the
\* area); for a discharge coefficient of 0 the area is the float quotient of
\* the flow by 0
C9_DesignPointAreaOrInvalidPoint ==
    ThroatComputed
      => /\ (out.nozzle = "ValueError") <=> (out.th.rho * out.th.V = 0)
         /\ out.nozzle = "ValueError" => out.A_th = 0
         /\ out.th.rho * out.th.V # 0
              => /\ out.nozzle = "none"
                 /\ IF cfg.d.Cd = 0 THEN out.A_th = DivByZero(st.s5.W_kgps)
                    ELSE Abs(MulDiv(MulDiv(out.A_th, out.th.rho * out.th.V, 10000),
                                    cfg.d.Cd, 1000) - st.s5.W_kgps)
                           <= (out.th.rho * out.th.V) \div 5000 + 2

\* the ambient pressure is not below the nozzle inlet pressure: the clamped
\* enthalpy drop is zero and the call has raised ValueError
C9_Witness ==
    /\ ThroatComputed /\ cfg.prog = "nozzle" /\ heap[1].P <= NozzleAmbient
    /\ out.th.V = 0 /\ out.th.rho > 0 /\ out.nozzle = "ValueError" /\ exc = "ValueError"

\* a throat area has been returned for a discharge coefficient of 0.99
C9_WitnessArea ==
    /\ ThroatComputed /\ cfg.d.Cd = 990 /\ out.nozzle = "none" /\ out.A_th > 0
    /\ IsFinite(out.A_th)

\* a discharge coefficient of 0 has been answered with an infinite throat area
\* and no exception
C9_WitnessZeroCd ==
    /\ ThroatComputed /\ cfg.d.Cd = 0 /\ out.nozzle = "none" /\ exc = "none"
    /\ out.A_th = FLOAT_INF

\* C5: whatever a station of calculate_performance raises at a trial point is
\* caught: the call raises nothing and returns the sentinel residuals
\* [1e6, 1e6] with an empty performance record
C5_FailureGivesSentinel ==
    cfg.prog = "trials"
      => /\ pc # "crashed" /\ exc = "none"
         /\ \A i \in 1..Len(evals) :
              evals[i].caught # "none"
                => evals[i].errors = SentinelErrors /\ evals[i].keys = {}

\* a trial whose turbine map gives a pressure ratio of 0 has passed the burner
\* (no combustion warning), has had the infinite exit pressure refused by the
\* gas engine in the turbine and has answered with the sentinel, and the next
\* trial has been made
C5_Witness ==
    /\ cfg.prog = "trials" /\ Len(evals) = 2
    /\ get_turbine_map(evals[1].x[1], evals[1].x[2]).PR = 0
    /\ evals[1].caught = "CanteraError" /\ evals[1].errors = SentinelErrors
    /\ evals[1].keys = {}
    /\ evals[2].x # evals[1].x
    /\ \A w \in warn : w.who = "solver_error"

\* a trial whose burner has failed has answered with the sentinel, and a trial
\* after it has run to the end
C5_WitnessRecovered ==
    /\ cfg.prog = "trials" /\ Len(evals) = 2
    /\ evals[1].caught = "ValueError" /\ evals[1].errors = SentinelErrors
    /\ evals[2].caught = "none" /\ evals[2].keys = PerfKeys

\* a trial whose burner has failed has answered with the sentinel
C5_WitnessBurner ==
    /\ cfg.prog = "trials" /\ Len(evals) = 1
    /\ evals[1].caught = "ValueError" /\ evals[1].errors = SentinelErrors
    /\ evals[1].keys = {}

\* the round trip of the burner has run on the stations of this state
BurnerRoundTrip == cfg.prog = "design" /\ pc = "d4" /\ out.rt4.run

\* the exit temperature in 0.1 R of Burner.calculate_from_far at far
BurnerExitT_R(far) ==
    LET ret(b) == IF b.exc = "none" THEN T_R(b.H, b.state4) ELSE 0
    IN  ret(Burner_calculate_from_far(heap, st.s3, far, cfg.d.Burner_dP, st.fuel))

\* the round trip returned a temperature that differs from the target by no
\* more than the exit temperature moves over the xtol interval around the
\* returned far, and two units of the conversion between K and R
BurnerRoundTripReproduces ==
    /\ out.rt4.exc = "none"
    /\ Abs(out.rt4.val - cfg.d.Tt4_R_target)
         <= Abs(BurnerExitT_R(out.far + XTOL) - BurnerExitT_R(out.far - XTOL)) + 2

\* C2 as stated: for any target the exit temperature of calculate_from_far at
\* the far that calculate_from_T4 returned equals the target within the
\* tolerance of the root search
C2_RoundTripAnyTarget == BurnerRoundTrip => BurnerRoundTripReproduces

\* C2 amended: when the bracketed search of calculate_from_T4 found a root, the
\* exit temperature of calculate_from_far at the returned far equals the
\* target within the tolerance of the root search; when the search failed the
\* returned far is the fallback 0.017 whatever the target
C2_RoundTripWhenSearchConverged ==
    BurnerRoundTrip
      => /\ out.ier4 = 1 => BurnerRoundTripReproduces
         /\ out.ier4 # 1 => out.far = FAR_GUESS_INITIAL /\ out.rt4.arg = FAR_GUESS_INITIAL

\* a search that found a root strictly inside the bracket, and its round trip
C2_Witness ==
    /\ BurnerRoundTrip /\ out.ier4 = 1 /\ out.rt4.exc = "none"
    /\ out.far > FAR_LO /\ out.far < FAR_HI /\ out.far # FAR_GUESS_INITIAL
    /\ Abs(out.rt4.val - cfg.d.Tt4_R_target) <= 5

\* a target outside the bracket, answered with the fallback far
C2_WitnessFallback ==
    /\ BurnerRoundTrip /\ out.ier4 = 0 /\ out.far = FAR_GUESS_INITIAL
    /\ out.rt4.exc = "none" /\ Abs(out.rt4.val - cfg.d.Tt4_R_target) > 1000

\* the bracketed search of Burner.calculate_from_T4 has failed: the warning
\* naming the target has been reported
BurnerSearchFailed ==
    /\ cfg.prog = "design"
    /\ Warning("Burner_solver", cfg.d.Tt4_R_target) \in warn

\* C3: when the bracketed search fails, calculate_from_T4 does not raise: it
\* has reported the warning naming the target and returns the fallback far
\* 0.017 with the exit state computed at 0.017
C3_FallbackDoesNotRaise ==
    BurnerSearchFailed
      => /\ out.ier4 = 0 /\ out.far = FAR_GUESS_INITIAL
         /\ st.s4 # NoState
         /\ pc = "d4" => heap[st.s4.gas].comp = [kind |-> "burned",
                                                 far |-> FAR_GUESS_INITIAL]

\* the round trip of the turbine has run on the stations of this state
TurbineRoundTrip == cfg.prog = "design" /\ pc = "d5" /\ out.rt5.run

\* the specific work of Turbine.calculate at the pressure ratio PR_turb
TurbineWork(PR_turb) ==
    LET ret(t) == t.W_turb
    IN  ret(Turbine_calculate(heap, st.s4, PR_turb, cfg.d.Eff_turb, out.far))

\* the round trip returned a work that differs from W by no more than the work
\* of Turbine.calculate moves over two steps of the pressure ratio
TurbineRoundTripGives(W) ==
    /\ out.rt5.exc = "none"
    /\ Abs(out.rt5.val - W)
         <= 2 * Abs(TurbineWork(out.rt5.arg + 1) - TurbineWork(out.rt5.arg)) + 2

\* C4 as stated: Turbine.calculate at inlet pressure / exit pressure of
\* calculate_from_work returns the required work, for any required work
C4_RoundTripRequiredWork == TurbineRoundTrip => TurbineRoundTripGives(out.W_comp)

\* C4 amended: when the exit-pressure search of calculate_from_work converged,
\* Turbine.calculate at inlet pressure / exit pressure returns the work per kg
\* of exhaust gas, requiredWork / (1 + far), within tolerance
C4_RoundTripWorkPerExhaust ==
    TurbineRoundTrip /\ out.ier5 = 1
      => TurbineRoundTripGives(MulDiv(out.W_comp, FAR_ONE, FAR_ONE + out.far))

\* a converged search for a compressor work above 100 kJ/kg with fuel added,
\* and its round trip
C4_Witness ==
    /\ TurbineRoundTrip /\ out.ier5 = 1 /\ out.rt5.exc = "none"
    /\ out.W_comp > 1000 /\ out.far > 0 /\ out.rt5.arg > 1000
    /\ out.rt5.val < out.W_comp /\ out.rt5.val > 0

\* both residuals within 0.1 of zero
WithinTolerance(errors) == Abs(errors[1]) <= 100 /\ Abs(errors[2]) <= 100

\* C6: in the success branch of find_operating_point both residuals at the
\* reported point are within tolerance of zero and are not the sentinel, and
\* the performance record printed is fully populated; the failure branch
\* reports the message of the solver
C6_SuccessBranchConverged ==
    cfg.prog = "solve"
      => /\ pc = "success_branch"
              => /\ exc = "none" /\ Len(evals) > 0
                 /\ evals[Len(evals)].x = sol.x
                 /\ evals[Len(evals)].errors # SentinelErrors
                 /\ WithinTolerance(evals[Len(evals)].errors)
                 /\ evals[Len(evals)].keys = PerfKeys
         /\ pc = "failure_branch"
              => sol.status = "failed" /\ Warning("solver_message", sol.iter) \in warn

\* this step is a call of the turbine in the design-point run:
\* Turbine.calculate_from_work at station 4, or the Turbine.calculate of the
\* round trip
TurbineCalled ==
    /\ cfg.prog = "design"
    /\ \/ pc = "d4" /\ pc' = "d5"
       \/ pc = "d5" /\ ~out.rt5.run /\ out'.rt5.run

\* C12: a call of Turbine.calculate or Turbine.calculate_from_work leaves the
\* inlet state4 as it was (temperature, pressure and composition of its gas
\* object, and its mass flow), and the state5 it returns has a gas handle of
\* its own
C12_TurbineLeavesInletState ==
    [][TurbineCalled
         => /\ st'.s4 = st.s4
            /\ heap'[st.s4.gas] = heap[st.s4.gas]
            /\ pc = "d4" => st'.s5.gas # st.s4.gas /\ st'.s5.gas \in DOMAIN heap'
            /\ pc = "d5" /\ out'.rt5.exc = "none"
                 => out'.rt5.gas # st.s4.gas /\ out'.rt5.gas \in DOMAIN heap']_vars

\* both calls have returned: two exit states with handles of their own, both
\* colder than the inlet state, which is still at the burner exit pressure
C12_Witness ==
    /\ cfg.prog = "design" /\ pc = "d5" /\ out.rt5.run /\ out.rt5.exc = "none"
    /\ st.s5.gas # st.s4.gas /\ out.rt5.gas # st.s4.gas /\ out.rt5.gas # st.s5.gas
    /\ heap[st.s5.gas].T < heap[st.s4.gas].T
    /\ heap[out.rt5.gas].T < heap[st.s4.gas].T
    /\ heap[st.s4.gas].comp.kind = "burned"

\* Turbine.calculate_from_work has returned state5 at station 5
TurbineFromWorkReturned == cfg.prog \in {"design", "turbine"} /\ pc = "d5"

\* the run has ended inside Turbine.calculate_from_work
TurbineFromWorkRaised ==
    /\ cfg.prog \in {"design", "turbine"} /\ pc = "crashed"
    /\ st.s4 # NoState /\ st.s5 = NoState

\* the warning of the exit-pressure search has been reported
TurbineSolverWarned == \E w \in warn : w.who = "Turbine_solver"

\* the enthalpy drop calculate_from_work asks of the turbine
RequiredDrop == MulDiv(out.W_comp, FAR_ONE, FAR_ONE + out.far)

\* P is the root of _find_P_from_SH at the resolution of the pressure
IsExitPressureRoot(P) ==
    LET h_out_ideal_jkg == h_jkg(heap, st.s4) - DivRatio(RequiredDrop, cfg.d.Eff_turb)
        root(c) ==
            /\ find_P_from_SH(c.g, s_jkgK(heap, st.s4), h_out_ideal_jkg, P) >= 0
            /\ find_P_from_SH(c.g, s_jkgK(heap, st.s4), h_out_ideal_jkg, P - 1) < 0
    IN  root(CopyGas(heap, st.s4))

\* C13: when the exit-pressure search of Turbine.calculate_from_work does not
\* converge the call does not raise, reports a warning and returns the exit
\* state at the seed pressure, inlet pressure / 3; when it converges the exit
\* pressure is the root found; either way the exit enthalpy is the inlet
\* enthalpy minus requiredWork / (1 + far)
C13_TurbineSeedPressureFallback ==
    /\ TurbineFromWorkRaised => ~TurbineSolverWarned
    /\ TurbineFromWorkReturned
         => /\ h_jkg(heap, st.s5) = h_jkg(heap, st.s4) - RequiredDrop
            /\ out.ier5 # 1
                 => /\ TurbineSolverWarned
                    /\ P_Pa(heap, st.s5) = P_Pa(heap, st.s4) \div 3
            /\ out.ier5 = 1
                 => /\ ~TurbineSolverWarned
                    /\ IsExitPressureRoot(P_Pa(heap, st.s5))

\* a search that did not converge, answered with the seed pressure, which is
\* not a root
C13_Witness ==
    /\ TurbineFromWorkReturned /\ out.ier5 # 1 /\ TurbineSolverWarned
    /\ P_Pa(heap, st.s5) = P_Pa(heap, st.s4) \div 3
    /\ out.W_comp > 0
    /\ ~IsExitPressureRoot(P_Pa(heap, st.s5))

\* a search that converged on a root other than the seed
C13_WitnessConverged ==
    /\ TurbineFromWorkReturned /\ out.ier5 = 1 /\ ~TurbineSolverWarned
    /\ P_Pa(heap, st.s5) # P_Pa(heap, st.s4) \div 3
    /\ IsExitPressureRoot(P_Pa(heap, st.s5))

\* the except block of Burner._perform_combustion has reported its warning in
\* the design-point run
CombustionWarned ==
    /\ cfg.prog = "design"
    /\ \E w \in warn : w.who = "perform_combustion"

\* the design-point run has ended inside the burner
BurnerRaised ==
    /\ cfg.prog = "design" /\ pc = "crashed"
    /\ st.s3 # NoState /\ st.s4 = NoState

\* the burner has returned state4 at station 4 of the design-point run
BurnerReturned == cfg.prog = "design" /\ pc = "d4"

\* P3 * (1 - dP)
BurnerExitPressure == (P_Pa(heap, st.s3) * (1000 - cfg.d.Burner_dP)) \div 1000

\* C14: when the mixing or equilibrium step of Burner._perform_combustion
\* fails the routine does not abort: it reports a warning and returns a gas of
\* the upstream air composition at the upstream temperature; on every path
\* the returned gas is at the pressure P3 * (1 - dP)
C14_CombustionFallbackReturnsAir ==
    /\ CombustionWarned => ~BurnerRaised
    /\ BurnerReturned => P_Pa(heap, st.s4) = BurnerExitPressure
    /\ BurnerReturned /\ Warning("perform_combustion", out.far) \in warn
         => /\ heap[st.s4.gas].comp = heap[st.s3.gas].comp
            /\ T_K(heap, st.s4) = T_K(heap, st.s3)

\* combustion has succeeded and state4 is at the reduced pressure
C14_SuccessPathPressure ==
    /\ BurnerReturned /\ ~CombustionWarned
    /\ cfg.d.Burner_dP > 0
    /\ P_Pa(heap, st.s4) = BurnerExitPressure
    /\ P_Pa(heap, st.s4) < P_Pa(heap, st.s3)

\* the stations of the chain
Stations == {"s0", "s2", "s3", "s4", "s5"}

\* C15: a station's GasState is never mutated after creation: through one
\* pipeline evaluation, once the GasState of a station exists no later
\* component call or station construction changes the temperature and the
\* pressure it reports
C15_StationsNeverMutated ==
    [][\A k \in Stations :
         st[k] # NoState /\ st'[k] = st[k]
           => /\ T_K(heap', st[k]) = T_K(heap, st[k])
              /\ P_Pa(heap', st[k]) = P_Pa(heap, st[k])]_vars

\* the design-point run has ended and the ambient station reports the
\* compressor exit conditions
C15_AmbientReportsCompressorExit ==
    /\ cfg.prog = "design" /\ pc = "done"
    /\ st.s0.gas = st.s3.gas
    /\ P_Pa(heap, st.s0) = PsiToPa(out.Pt3)
    /\ P_Pa(heap, st.s0) > PsiToPa(cfg.d.P_amb_psia)

\* Nozzle.calculate has returned for the throat area calculate_design_point
\* gave on the same state, ambient pressure and discharge coefficient
NozzleRoundTrip == cfg.prog = "nozzle" /\ pc = "done"

\* what the last digit of the throat area is worth in mass flow, in lbm/s
NozzleRoundTripTol == KgpsToPps((out.th.rho * out.th.V) \div 5000 + 2) + 1

\* C16: for a turbine-exit state with non-zero throat density times velocity
\* and a discharge coefficient (a ratio above 0), Nozzle.calculate on the
\* throat area of calculate_design_point returns, in lbm/s, the total mass
\* flow of the state (state5.W_kgps, air plus fuel), to within the last digit
\* of the area, whatever the air flow passed in
C16_NozzleDesignOffDesignConsistent ==
    (NozzleRoundTrip /\ out.th.rho * out.th.V # 0 /\ cfg.d.Cd > 0)
      => Abs(out.W_calc - KgpsToPps(st.s5.W_kgps)) <= NozzleRoundTripTol

\* the round trip has given back the total flow of a state whose total flow
\* is further from the air flow than the tolerance reaches
C16_Witness ==
    /\ NozzleRoundTrip /\ out.th.rho * out.th.V # 0 /\ cfg.d.Cd > 0
    /\ out.A_th > 0 /\ IsFinite(out.A_th)
    /\ Abs(out.W_calc - KgpsToPps(st.s5.W_kgps)) <= NozzleRoundTripTol
    /\ KgpsToPps(st.s5.W_kgps) - cfg.d.W_air_pps > 2 * NozzleRoundTripTol
    /\ Abs(out.W_calc - cfg.d.W_air_pps) > NozzleRoundTripTol

====
